---- MODULE Spec2Model ----
(***************************************************************************)
(* A model of the PDF content-stream interpreter (PDFContentParser and     *)
(* GraphicsState): the tokenizer, the operand stack and operator dispatch  *)
(* loop, the graphics-state stack, the path model builder, and the text    *)
(* operators with their ToUnicode CMap decoding.                           *)
(*                                                                         *)
(* A token is the sequence of its characters (one-character strings), so   *)
(* that the tokenizer's and the dispatcher's regular expressions are       *)
(* computed on characters.  A nullable field (currentPath, a style field   *)
(* not yet written) is a sequence of length 0 (null / absent) or 1.        *)
(***************************************************************************)
EXTENDS Integers, Sequences, FiniteSets, TLC

(***************************************************************************)
(* Bounds of the exploration.                                              *)
(***************************************************************************)
\* operators dispatched in one explored run of the dispatch loop (Spec)
MaxOps == 3
\* operators dispatched in one explored run of SpecGS
MaxStateOps == 4
\* operators dispatched in one explored run of SpecPath
MaxPathOps == 5
\* `l` operators in a polygon stream of the scenario family
MaxLines == 3

(***************************************************************************)
(* Characters.                                                             *)
(***************************************************************************)
Digits == {"0", "1", "2", "3", "4", "5", "6", "7", "8", "9"}

LowerLetters ==
  {"a", "b", "c", "d", "e", "f", "g", "h", "i", "j", "k", "l", "m",
   "n", "o", "p", "q", "r", "s", "t", "u", "v", "w", "x", "y", "z"}

UpperLetters ==
  {"A", "B", "C", "D", "E", "F", "G", "H", "I", "J", "K", "L", "M",
   "N", "O", "P", "Q", "R", "S", "T", "U", "V", "W", "X", "Y", "Z"}

Letters == LowerLetters \cup UpperLetters

\* \s of the regular expressions
Whitespace == {" ", "\n", "\t", "\r", "\f"}

\* the characters of a string, in order
W(str) == [k \in 1..Len(str) |-> SubSeq(str, k, k)]

HexDigits == Digits \cup {"a", "b", "c", "d", "e", "f", "A", "B", "C", "D", "E", "F"}

(***************************************************************************)
(* Numbers.  A JavaScript number is modelled by an integer, or by NaN.     *)
(* Every numeric token of the explored streams is an integer literal, so   *)
(* sums and products are exact.                                            *)
(***************************************************************************)
NaN == -1000000

Plus(a, b) == IF a = NaN \/ b = NaN THEN NaN ELSE a + b

Times(a, b) == IF a = NaN \/ b = NaN THEN NaN ELSE a * b

DigitValue(ch) ==
  CASE ch = "0" -> 0 [] ch = "1" -> 1 [] ch = "2" -> 2 [] ch = "3" -> 3
    [] ch = "4" -> 4 [] ch = "5" -> 5 [] ch = "6" -> 6 [] ch = "7" -> 7
    [] ch = "8" -> 8 [] ch = "9" -> 9

\* the length of the longest run of decimal digits of s that starts at index i
RECURSIVE DigitRun(_, _)
DigitRun(s, i) ==
  IF i <= Len(s) /\ s[i] \in Digits THEN 1 + DigitRun(s, i + 1) ELSE 0

\* the value of the decimal digits s[i .. i+n-1]
RECURSIVE DigitsValue(_, _, _)
DigitsValue(s, i, n) ==
  IF n = 0 THEN 0
  ELSE 10 * DigitsValue(s, i, n - 1) + DigitValue(s[i + n - 1])

\* parseInt(token): the longest prefix  [+-]? digits+ , NaN when there is none
ParseInt(tok) ==
  LET signed == Len(tok) >= 1 /\ tok[1] \in {"+", "-"}
      first  == IF signed THEN 2 ELSE 1
      n      == DigitRun(tok, first)
      mag    == DigitsValue(tok, first, n)
  IN  IF n = 0 THEN NaN
      ELSE IF signed /\ tok[1] = "-" THEN 0 - mag ELSE mag

\* parseFloat(token) on the tokens of the explored streams: an integer literal
\* (an optional sign, digits, an optional "." followed by no digit) parses to
\* its value, a token with no leading number parses to NaN
ParseFloat(tok) ==
  LET signed == Len(tok) >= 1 /\ tok[1] \in {"+", "-"}
      first  == IF signed THEN 2 ELSE 1
      n      == DigitRun(tok, first)
      after  == first + n
  IN  CASE n = 0 -> NaN
        [] n > 0 /\ after > Len(tok) -> ParseInt(tok)
        [] n > 0 /\ after <= Len(tok) /\ tok[after] # "." -> ParseInt(tok)
        [] n > 0 /\ after <= Len(tok) /\ tok[after] = "."
             /\ DigitRun(tok, after + 1) = 0 -> ParseInt(tok)

HexChar(d) ==
  CASE d = 0 -> "0" [] d = 1 -> "1" [] d = 2 -> "2" [] d = 3 -> "3"
    [] d = 4 -> "4" [] d = 5 -> "5" [] d = 6 -> "6" [] d = 7 -> "7"
    [] d = 8 -> "8" [] d = 9 -> "9" [] d = 10 -> "a" [] d = 11 -> "b"
    [] d = 12 -> "c" [] d = 13 -> "d" [] d = 14 -> "e" [] d = 15 -> "f"

RECURSIVE HexOfNat(_)
HexOfNat(n) ==
  IF n < 16 THEN <<HexChar(n)>>
  ELSE Append(HexOfNat(n \div 16), HexChar(n % 16))

\* Number.prototype.toString(16) of an integer or NaN
ToString16(n) ==
  IF n = NaN THEN <<"N", "a", "N">>
  ELSE IF n < 0 THEN <<"-">> \o HexOfNat(0 - n)
  ELSE HexOfNat(n)

\* String.prototype.padStart(2, '0')
PadStart2(s) ==
  IF Len(s) >= 2 THEN s
  ELSE IF Len(s) = 1 THEN <<"0">> \o s
  ELSE <<"0", "0">>

(***************************************************************************)
(* Operator and operand tokens: T_x is the operator of  case 'x'  in the  *)
(* switch of executeOperator, Star standing for *.                         *)
(***************************************************************************)
T_m == <<"m">>
T_l == <<"l">>
T_c == <<"c">>
T_v == <<"v">>
T_y == <<"y">>
T_h == <<"h">>
T_re == <<"r", "e">>
T_S == <<"S">>
T_s == <<"s">>
T_f == <<"f">>
T_F == <<"F">>
T_fStar == <<"f", "*">>
T_B == <<"B">>
T_BStar == <<"B", "*">>
T_b == <<"b">>
T_bStar == <<"b", "*">>
T_n == <<"n">>
T_w == <<"w">>
T_J == <<"J">>
T_j == <<"j">>
T_d == <<"d">>
T_q == <<"q">>
T_Q == <<"Q">>
T_cm == <<"c", "m">>
T_g == <<"g">>
T_G == <<"G">>
T_rg == <<"r", "g">>
T_RG == <<"R", "G">>
T_k == <<"k">>
T_K == <<"K">>
T_BT == <<"B", "T">>
T_ET == <<"E", "T">>
T_Tf == <<"T", "f">>
T_Tm == <<"T", "m">>
T_Td == <<"T", "d">>
T_TD == <<"T", "D">>
T_Tj == <<"T", "j">>
T_TJ == <<"T", "J">>
T_TStar == <<"T", "*">>
T_Quote == <<"'">>
T_DoubleQuote == <<"\"">>

\* sc, SC, scn, SCN: one shared case that does nothing
SetColorOperators == {<<"s", "c">>, <<"S", "C">>, <<"s", "c", "n">>, <<"S", "C", "N">>}

\* Tc, Tw, Tz, TL, Tr, Ts: one shared case that does nothing
TextStateOperators ==
  {<<"T", "c">>, <<"T", "w">>, <<"T", "z">>, <<"T", "L">>, <<"T", "r">>, <<"T", "s">>}

\* an operator that is in no case of executeOperator
T_zz == <<"z", "z">>

(***************************************************************************)
(* GraphicsState.                                                          *)
(***************************************************************************)
Black == <<"#", "0", "0", "0", "0", "0", "0">>

IdentityCTM == [a |-> 1, b |-> 0, c |-> 0, d |-> 1, e |-> 0, f |-> 0]

\* new GraphicsState()
NewGraphicsState ==
  [fillColor |-> Black, strokeColor |-> Black, lineWidth |-> 1,
   lineCap |-> "butt", lineJoin |-> "miter", dashArray |-> <<>>,
   ctm |-> IdentityCTM]

\* a clone that forgets the line width: it keeps the constructor's default
CloneDroppingLineWidth(gs) ==
  [fillColor |-> gs.fillColor, strokeColor |-> gs.strokeColor,
   lineWidth |-> NewGraphicsState.lineWidth,
   lineCap |-> gs.lineCap, lineJoin |-> gs.lineJoin,
   dashArray |-> gs.dashArray, ctm |-> gs.ctm]

\* GraphicsState.clone(): a new state, every field assigned, the ctm copied
Clone(gs) ==
  [fillColor |-> gs.fillColor, strokeColor |-> gs.strokeColor,
   lineWidth |-> gs.lineWidth,
   lineCap |-> gs.lineCap, lineJoin |-> gs.lineJoin,
   dashArray |-> gs.dashArray,
   ctm |-> [a |-> gs.ctm.a, b |-> gs.ctm.b, c |-> gs.ctm.c,
            d |-> gs.ctm.d, e |-> gs.ctm.e, f |-> gs.ctm.f]]

(***************************************************************************)
(* The parser object.  p is the record of the fields of a                  *)
(* PDFContentParser; a handler maps the parser before to the parser after. *)
(***************************************************************************)
IdentityTextMatrix == <<1, 0, 0, 1, 0, 0>>

\* new PDFContentParser(options): options.fontDict is <<>> or a font
\* dictionary in a tuple, pdfContext tells whether options.pdfContext is
\* given.  extractCalls is history, the calls of extractToUnicodeCMap so
\* far by font name.
NewParserWith(fontDict, pdfContext) ==
  [paths |-> <<>>, currentPath |-> <<>>, textObjects |-> <<>>,
   graphicsState |-> NewGraphicsState, stateStack |-> <<>>,
   inTextObject |-> FALSE, currentFont |-> <<>>, currentFontSize |-> 0,
   textMatrix |-> IdentityTextMatrix, textLineMatrix |-> IdentityTextMatrix,
   fontDict |-> fontDict, pdfContext |-> pdfContext,
   fontCMaps |-> <<>>, extractCalls |-> <<>>]

\* new PDFContentParser()
NewParser == NewParserWith(<<>>, FALSE)

Point(x, y) == [x |-> x, y |-> y]

\* style: {} -- no field written yet
EmptyStyle ==
  [fill |-> <<>>, fillRule |-> <<>>, stroke |-> <<>>, strokeWidth |-> <<>>,
   strokeLinecap |-> <<>>, strokeLinejoin |-> <<>>, strokeDasharray |-> <<>>]

\* a createPath that leaves the transform at the identity
CreatePathIdentity(p) ==
  [subpaths |-> <<>>, currentPoint |-> <<>>, operation |-> "null",
   style |-> EmptyStyle, transform |-> IdentityCTM]

\* createPath(): the transform is the live ctm object of that moment
CreatePath(p) ==
  [subpaths |-> <<>>, currentPoint |-> <<>>, operation |-> "null",
   style |-> EmptyStyle, transform |-> p.graphicsState.ctm]

HasPath(p) == p.currentPath # <<>>

CurPath(p) == p.currentPath[1]

WithPath(p, path) == [p EXCEPT !.currentPath = <<path>>]

\* getCurrentSubpath() !== null
HasSubpath(path) == Len(path.subpaths) > 0

\* the path with seg pushed on the segments of its last subpath (when it
\* has one) and its current point moved to pt
PushSegment(path, seg, pt) ==
  LET n == Len(path.subpaths)
      pushed == IF HasSubpath(path)
                THEN [path.subpaths EXCEPT ![n].segments = Append(@, seg)]
                ELSE path.subpaths
  IN  [path EXCEPT !.subpaths = pushed, !.currentPoint = <<pt>>]

LineSeg(pt) == [type |-> "line", cp1 |-> <<>>, cp2 |-> <<>>, point |-> pt]

CubicSeg(c1, c2, pt) == [type |-> "cubic", cp1 |-> <<c1>>, cp2 |-> <<c2>>, point |-> pt]

\* an m that starts the path over with the new subpath alone
OpMoveToReplacing(p, operands) ==
  IF Len(operands) < 2 THEN p
  ELSE LET pt == Point(ParseFloat(operands[1]), ParseFloat(operands[2]))
           path == IF HasPath(p) THEN CurPath(p) ELSE CreatePath(p)
           sub == [segments |-> <<>>, closed |-> FALSE, startPoint |-> pt]
       IN  WithPath(p, [path EXCEPT !.subpaths = <<sub>>, !.currentPoint = <<pt>>])

OpMoveTo(p, operands) ==
  IF Len(operands) < 2 THEN p
  ELSE LET x == ParseFloat(operands[1])
           y == ParseFloat(operands[2])
           path == IF HasPath(p) THEN CurPath(p) ELSE CreatePath(p)
           sub == [segments |-> <<>>, closed |-> FALSE, startPoint |-> Point(x, y)]
       IN  WithPath(p, [path EXCEPT !.subpaths = Append(@, sub),
                                    !.currentPoint = <<Point(x, y)>>])

\* an l that opens a path when there is none, as m does
OpLineToOpeningPath(p, operands) ==
  IF Len(operands) < 2 THEN p
  ELSE IF ~HasPath(p) THEN OpMoveTo(p, operands)
  ELSE LET pt == Point(ParseFloat(operands[1]), ParseFloat(operands[2]))
       IN  WithPath(p, PushSegment(CurPath(p), LineSeg(pt), pt))

OpLineTo(p, operands) ==
  IF Len(operands) < 2 \/ ~HasPath(p) THEN p
  ELSE LET pt == Point(ParseFloat(operands[1]), ParseFloat(operands[2]))
       IN  WithPath(p, PushSegment(CurPath(p), LineSeg(pt), pt))

OpCurveTo(p, operands) ==
  IF Len(operands) < 6 \/ ~HasPath(p) THEN p
  ELSE LET c1 == Point(ParseFloat(operands[1]), ParseFloat(operands[2]))
           c2 == Point(ParseFloat(operands[3]), ParseFloat(operands[4]))
           pt == Point(ParseFloat(operands[5]), ParseFloat(operands[6]))
       IN  WithPath(p, PushSegment(CurPath(p), CubicSeg(c1, c2, pt), pt))

\* opCurveToV raises: cp is null where cp.x is read for the segment
OpCurveToVRaises(p, operands) ==
  /\ Len(operands) >= 4
  /\ HasPath(p)
  /\ HasSubpath(CurPath(p))
  /\ CurPath(p).currentPoint = <<>>

\* opCurveToV(operands); a call that raises has changed nothing
OpCurveToV(p, operands) ==
  IF Len(operands) < 4 \/ ~HasPath(p) \/ OpCurveToVRaises(p, operands) THEN p
  ELSE LET cp == CurPath(p).currentPoint[1]
           c2 == Point(ParseFloat(operands[1]), ParseFloat(operands[2]))
           pt == Point(ParseFloat(operands[3]), ParseFloat(operands[4]))
       IN  WithPath(p, PushSegment(CurPath(p), CubicSeg(Point(cp.x, cp.y), c2, pt), pt))

OpCurveToY(p, operands) ==
  IF Len(operands) < 4 \/ ~HasPath(p) THEN p
  ELSE LET c1 == Point(ParseFloat(operands[1]), ParseFloat(operands[2]))
           pt == Point(ParseFloat(operands[3]), ParseFloat(operands[4]))
       IN  WithPath(p, PushSegment(CurPath(p), CubicSeg(c1, pt, pt), pt))

\* an `h` that leaves the subpath open
OpClosePathKeepingOpen(p) == p

OpClosePath(p) ==
  IF ~HasPath(p) THEN p
  ELSE LET path == CurPath(p)
           n == Len(path.subpaths)
       IN  IF HasSubpath(path)
           THEN WithPath(p, [path EXCEPT !.subpaths[n].closed = TRUE])
           ELSE p

\* the corners of the rectangle listed the other way round
RectangleSegmentsReversed(x, y, width, height) ==
  << LineSeg(Point(x, Plus(y, height))),
     LineSeg(Point(Plus(x, width), Plus(y, height))),
     LineSeg(Point(Plus(x, width), y)) >>

\* the corners of the rectangle in the order the code lists them
RectangleSegments(x, y, width, height) ==
  << LineSeg(Point(Plus(x, width), y)),
     LineSeg(Point(Plus(x, width), Plus(y, height))),
     LineSeg(Point(x, Plus(y, height))) >>

\* an opRectangle that leaves the current point of the path unset
OpRectangleWithoutCurrentPoint(p, operands) ==
  IF Len(operands) < 4 THEN p
  ELSE LET path == IF HasPath(p) THEN CurPath(p) ELSE CreatePath(p)
           sub == [segments |-> <<>>, closed |-> TRUE,
                   startPoint |-> Point(ParseFloat(operands[1]), ParseFloat(operands[2]))]
       IN  WithPath(p, [path EXCEPT !.subpaths = Append(@, sub), !.currentPoint = <<>>])

OpRectangle(p, operands) ==
  IF Len(operands) < 4 THEN p
  ELSE LET x == ParseFloat(operands[1])
           y == ParseFloat(operands[2])
           width == ParseFloat(operands[3])
           height == ParseFloat(operands[4])
           path == IF HasPath(p) THEN CurPath(p) ELSE CreatePath(p)
           sub == [segments |-> RectangleSegments(x, y, width, height),
                   closed |-> TRUE, startPoint |-> Point(x, y)]
       IN  WithPath(p, [path EXCEPT !.subpaths = Append(@, sub),
                                    !.currentPoint = <<Point(x, y)>>])

\* a finishPath that puts the current path in front of the output list
FinishPathInFront(p) ==
  IF p.currentPath # <<>>
  THEN [p EXCEPT !.paths = <<p.currentPath[1]>> \o @, !.currentPath = <<>>]
  ELSE p

\* finishPath(): push the current path on the output list and forget it
FinishPath(p) ==
  IF HasPath(p)
  THEN [p EXCEPT !.paths = Append(@, CurPath(p)), !.currentPath = <<>>]
  ELSE p

\* a stroke that reads the fill colour for the stroke colour
OpStrokeWithFillColour(p) ==
  IF ~HasPath(p) THEN p
  ELSE LET gs == p.graphicsState
           path == CurPath(p)
           painted ==
             [path EXCEPT !.operation = "stroke",
                          !.style.stroke = <<gs.fillColor>>,
                          !.style.strokeWidth = <<gs.lineWidth>>,
                          !.style.strokeLinecap = <<gs.lineCap>>,
                          !.style.strokeLinejoin = <<gs.lineJoin>>,
                          !.style.strokeDasharray = <<gs.dashArray>>]
       IN  [p EXCEPT !.paths = Append(@, painted), !.currentPath = <<>>]

\* opStroke(): the stroke fields of the style are read from the live state
OpStroke(p) ==
  IF ~HasPath(p) THEN p
  ELSE LET gs == p.graphicsState
           path == CurPath(p)
           painted ==
             [path EXCEPT !.operation = "stroke",
                          !.style.stroke = <<gs.strokeColor>>,
                          !.style.strokeWidth = <<gs.lineWidth>>,
                          !.style.strokeLinecap = <<gs.lineCap>>,
                          !.style.strokeLinejoin = <<gs.lineJoin>>,
                          !.style.strokeDasharray = <<gs.dashArray>>]
       IN  FinishPath(WithPath(p, painted))

OpFill(p, fillRule) ==
  IF ~HasPath(p) THEN p
  ELSE LET gs == p.graphicsState
           path == CurPath(p)
           painted ==
             [path EXCEPT !.operation = "fill",
                          !.style.fill = <<gs.fillColor>>,
                          !.style.fillRule = <<fillRule>>]
       IN  FinishPath(WithPath(p, painted))

OpFillAndStroke(p, fillRule) ==
  IF ~HasPath(p) THEN p
  ELSE LET gs == p.graphicsState
           path == CurPath(p)
           painted ==
             [path EXCEPT !.operation = "fill-stroke",
                          !.style.fill = <<gs.fillColor>>,
                          !.style.fillRule = <<fillRule>>,
                          !.style.stroke = <<gs.strokeColor>>,
                          !.style.strokeWidth = <<gs.lineWidth>>,
                          !.style.strokeLinecap = <<gs.lineCap>>,
                          !.style.strokeLinejoin = <<gs.lineJoin>>]
       IN  FinishPath(WithPath(p, painted))

\* an `n` that records the path it ends
OpEndPathRecording(p) == FinishPath(p)

OpEndPath(p) == [p EXCEPT !.currentPath = <<>>]

(***************************************************************************)
(* Graphics state operators.                                               *)
(***************************************************************************)
OpSetLineWidth(p, operands) ==
  IF Len(operands) < 1 THEN p
  ELSE [p EXCEPT !.graphicsState.lineWidth = ParseFloat(operands[1])]

\* ['butt', 'round', 'square'][cap] || 'butt'
LineCapName(cap) ==
  CASE cap = 0 -> "butt" [] cap = 1 -> "round" [] cap = 2 -> "square"
    [] OTHER -> "butt"

\* ['miter', 'round', 'bevel'][join] || 'miter'
LineJoinName(join) ==
  CASE join = 0 -> "miter" [] join = 1 -> "round" [] join = 2 -> "bevel"
    [] OTHER -> "miter"

OpSetLineCap(p, operands) ==
  IF Len(operands) < 1 THEN p
  ELSE [p EXCEPT !.graphicsState.lineCap = LineCapName(ParseInt(operands[1]))]

OpSetLineJoin(p, operands) ==
  IF Len(operands) < 1 THEN p
  ELSE [p EXCEPT !.graphicsState.lineJoin = LineJoinName(ParseInt(operands[1]))]

\* Array.prototype.join(' ')
RECURSIVE Join(_)
Join(operands) ==
  IF Len(operands) = 0 THEN <<>>
  ELSE IF Len(operands) = 1 THEN operands[1]
  ELSE operands[1] \o <<" ">> \o Join(Tail(operands))

OpSetDash(p, operands) == [p EXCEPT !.graphicsState.dashArray = Join(operands)]

OpSaveState(p) == [p EXCEPT !.stateStack = Append(@, Clone(p.graphicsState))]

\* a restore that goes back to the initial state when nothing is saved
OpRestoreStateResetting(p) ==
  IF Len(p.stateStack) > 0
  THEN [p EXCEPT !.graphicsState = p.stateStack[Len(p.stateStack)],
                 !.stateStack = SubSeq(p.stateStack, 1, Len(p.stateStack) - 1)]
  ELSE [p EXCEPT !.graphicsState = NewGraphicsState]

\* opRestoreState(): graphicsState = stateStack.pop() on a non-empty stack
OpRestoreState(p) ==
  IF Len(p.stateStack) > 0
  THEN [p EXCEPT !.graphicsState = p.stateStack[Len(p.stateStack)],
                 !.stateStack = SubSeq(p.stateStack, 1, Len(p.stateStack) - 1)]
  ELSE p

\* the product taken in the other order
MultiplyMatricesSwapped(m1, m2) ==
  [a |-> Plus(Times(m2.a, m1.a), Times(m2.b, m1.c)),
   b |-> Plus(Times(m2.a, m1.b), Times(m2.b, m1.d)),
   c |-> Plus(Times(m2.c, m1.a), Times(m2.d, m1.c)),
   d |-> Plus(Times(m2.c, m1.b), Times(m2.d, m1.d)),
   e |-> Plus(Plus(Times(m2.e, m1.a), Times(m2.f, m1.c)), m1.e),
   f |-> Plus(Plus(Times(m2.e, m1.b), Times(m2.f, m1.d)), m1.f)]

MultiplyMatrices(m1, m2) ==
  [a |-> Plus(Times(m1.a, m2.a), Times(m1.b, m2.c)),
   b |-> Plus(Times(m1.a, m2.b), Times(m1.b, m2.d)),
   c |-> Plus(Times(m1.c, m2.a), Times(m1.d, m2.c)),
   d |-> Plus(Times(m1.c, m2.b), Times(m1.d, m2.d)),
   e |-> Plus(Plus(Times(m1.e, m2.a), Times(m1.f, m2.c)), m2.e),
   f |-> Plus(Plus(Times(m1.e, m2.b), Times(m1.f, m2.d)), m2.f)]

\* the matrix { a: parseFloat(operands[0]), ..., f: parseFloat(operands[5]) }
OperandMatrix(operands) ==
  [a |-> ParseFloat(operands[1]), b |-> ParseFloat(operands[2]),
   c |-> ParseFloat(operands[3]), d |-> ParseFloat(operands[4]),
   e |-> ParseFloat(operands[5]), f |-> ParseFloat(operands[6])]

OpConcatMatrix(p, operands) ==
  IF Len(operands) < 6 THEN p
  ELSE [p EXCEPT !.graphicsState.ctm =
                   MultiplyMatrices(p.graphicsState.ctm, OperandMatrix(operands))]

(***************************************************************************)
(* Colour operators.  Math.round is the identity on the integers.          *)
(***************************************************************************)
Hash == <<"#">>

GrayToHex(gray) ==
  LET hex == PadStart2(ToString16(Times(gray, 255)))
  IN  Hash \o hex \o hex \o hex

RgbToHex(r, g, b) ==
  Hash \o PadStart2(ToString16(Times(r, 255)))
       \o PadStart2(ToString16(Times(g, 255)))
       \o PadStart2(ToString16(Times(b, 255)))

\* 1 - x
OneMinus(x) == IF x = NaN THEN NaN ELSE 1 - x

\* a conversion that leaves the black component out
CmykToHexIgnoringBlack(c, m, y, k) == RgbToHex(OneMinus(c), OneMinus(m), OneMinus(y))

CmykToHex(c, m, y, k) ==
  RgbToHex(Times(OneMinus(c), OneMinus(k)),
           Times(OneMinus(m), OneMinus(k)),
           Times(OneMinus(y), OneMinus(k)))

SetColor(p, target, color) ==
  IF target = "fill"
  THEN [p EXCEPT !.graphicsState.fillColor = color]
  ELSE [p EXCEPT !.graphicsState.strokeColor = color]

OpSetGray(p, operands, target) ==
  IF Len(operands) < 1 THEN p
  ELSE SetColor(p, target, GrayToHex(ParseFloat(operands[1])))

OpSetRGB(p, operands, target) ==
  IF Len(operands) < 3 THEN p
  ELSE SetColor(p, target,
                RgbToHex(ParseFloat(operands[1]), ParseFloat(operands[2]),
                         ParseFloat(operands[3])))

OpSetCMYK(p, operands, target) ==
  IF Len(operands) < 4 THEN p
  ELSE SetColor(p, target,
                CmykToHex(ParseFloat(operands[1]), ParseFloat(operands[2]),
                          ParseFloat(operands[3]), ParseFloat(operands[4])))

(***************************************************************************)
(* Text state operators.                                                   *)
(***************************************************************************)
\* a BT that enters text mode and leaves the text matrices as they are
OpBeginTextKeepingMatrices(p) == [p EXCEPT !.inTextObject = TRUE]

OpBeginText(p) ==
  [p EXCEPT !.inTextObject = TRUE,
            !.textMatrix = IdentityTextMatrix,
            !.textLineMatrix = IdentityTextMatrix]

OpEndText(p) == [p EXCEPT !.inTextObject = FALSE]

OpSetFont(p, operands) ==
  IF Len(operands) >= 2
  THEN [p EXCEPT !.currentFont = <<operands[1]>>,
                 !.currentFontSize = ParseFloat(operands[2])]
  ELSE p

\* operands.map(parseFloat), of every operand
OpSetTextMatrix(p, operands) ==
  IF Len(operands) >= 6
  THEN LET tm == [i \in 1..Len(operands) |-> ParseFloat(operands[i])]
       IN  [p EXCEPT !.textMatrix = tm, !.textLineMatrix = tm]
  ELSE p

\* a Td that moves the text-line matrix and leaves the text matrix behind
OpMoveTextLineOnly(p, operands) ==
  IF Len(operands) >= 2
  THEN [p EXCEPT !.textLineMatrix[5] = Plus(@, ParseFloat(operands[1])),
                 !.textLineMatrix[6] = Plus(@, ParseFloat(operands[2]))]
  ELSE p

OpMoveText(p, operands) ==
  IF Len(operands) >= 2
  THEN LET tx == ParseFloat(operands[1])
           ty == ParseFloat(operands[2])
           tlm == [p.textLineMatrix EXCEPT ![5] = Plus(@, tx), ![6] = Plus(@, ty)]
       IN  [p EXCEPT !.textLineMatrix = tlm, !.textMatrix = tlm]
  ELSE p

OpMoveTextSetLeading(p, operands) == OpMoveText(p, operands)

\* a line advance that ignores the font size
LineAdvanceZero(fontSize) == 0

\* fontSize * 1.2, for the font sizes whose product is a whole number
LineAdvance(fontSize) ==
  CASE fontSize = NaN -> NaN
    [] fontSize # NaN /\ (fontSize * 12) % 10 = 0 -> (fontSize * 12) \div 10

\* opNextLine(): no test of inTextObject
OpNextLine(p) ==
  LET advance == LineAdvance(p.currentFontSize)
      tlm == [p.textLineMatrix EXCEPT
                ![6] = IF @ = NaN \/ advance = NaN THEN NaN ELSE @ - advance]
  IN  [p EXCEPT !.textLineMatrix = tlm, !.textMatrix = tlm]

(***************************************************************************)
(* Text showing.  A parser made by  new PDFContentParser()  has no font    *)
(* dictionary, so a string it shows is its unescaped raw text; one made    *)
(* with a font dictionary decodes through the ToUnicode CMap of the font.  *)
(***************************************************************************)
\* the backspace character
Backspace == "<BS>"

\* String.prototype.replace(/\\c/g, to): every backslash followed by c,
\* found left to right without overlap, becomes to
RECURSIVE ReplaceEscape(_, _, _)
ReplaceEscape(s, c, to) ==
  IF Len(s) = 0 THEN <<>>
  ELSE IF Len(s) >= 2 /\ s[1] = "\\" /\ s[2] = c
       THEN <<to>> \o ReplaceEscape(SubSeq(s, 3, Len(s)), c, to)
       ELSE <<s[1]>> \o ReplaceEscape(Tail(s), c, to)

\* the chain of replace calls on the body of a literal string
Unescape(s) ==
  LET s1 == ReplaceEscape(s, "n", "\n")
      s2 == ReplaceEscape(s1, "r", "\r")
      s3 == ReplaceEscape(s2, "t", "\t")
      s4 == ReplaceEscape(s3, "b", Backspace)
      s5 == ReplaceEscape(s4, "f", "\f")
      s6 == ReplaceEscape(s5, "(", "(")
      s7 == ReplaceEscape(s6, ")", ")")
  IN  ReplaceEscape(s7, "\\", "\\")

StartsWith(s, c) == Len(s) > 0 /\ s[1] = c

EndsWith(s, c) == Len(s) > 0 /\ s[Len(s)] = c

\* the index of the first c in s at or after index i, 0 when there is none
RECURSIVE IndexOf(_, _, _)
IndexOf(s, c, i) ==
  IF i > Len(s) THEN 0
  ELSE IF s[i] = c THEN i
  ELSE IndexOf(s, c, i + 1)

(***************************************************************************)
(* Code units and ToUnicode CMaps.  A string is the sequence of its        *)
(* characters; charCodeAt is tabulated for the characters of the explored  *)
(* strings.  The one-character string that String.fromCharCode returns is  *)
(* held in a CMap as its code unit.  null is <<>>, a value v is <<v>>.     *)
(***************************************************************************)
\* String.prototype.charCodeAt, of a one-character string
CharCodeAt(ch) ==
  CASE ch = "/" -> 47 [] ch = "0" -> 48 [] ch = "1" -> 49 [] ch = "2" -> 50
    [] ch = "3" -> 51 [] ch = "4" -> 52
    [] ch = "A" -> 65 [] ch = "B" -> 66 [] ch = "C" -> 67 [] ch = "F" -> 70
    [] ch = "H" -> 72
    [] ch = "a" -> 97 [] ch = "b" -> 98 [] ch = "c" -> 99 [] ch = "i" -> 105

\* the one-character string of a code unit
CharOfUnit(u) ==
  CASE u = 47 -> "/" [] u = 48 -> "0" [] u = 49 -> "1" [] u = 50 -> "2"
    [] u = 51 -> "3" [] u = 52 -> "4"
    [] u = 65 -> "A" [] u = 66 -> "B" [] u = 67 -> "C" [] u = 70 -> "F"
    [] u = 72 -> "H"
    [] u = 97 -> "a" [] u = 98 -> "b" [] u = 99 -> "c" [] u = 105 -> "i"

\* String.fromCharCode(n): ToUint16 of n is the code unit of the result
FromCharCode(n) == n % 65536

HexValue(ch) ==
  CASE ch \in Digits -> DigitValue(ch)
    [] ch \in {"a", "A"} -> 10 [] ch \in {"b", "B"} -> 11
    [] ch \in {"c", "C"} -> 12 [] ch \in {"d", "D"} -> 13
    [] ch \in {"e", "E"} -> 14 [] ch \in {"f", "F"} -> 15

\* the length of the longest run of hex digits of s that starts at index i
RECURSIVE HexRun(_, _)
HexRun(s, i) ==
  IF i <= Len(s) /\ s[i] \in HexDigits THEN 1 + HexRun(s, i + 1) ELSE 0

\* the value of the hex digits s[i .. i+n-1]
RECURSIVE HexDigitsValue(_, _, _)
HexDigitsValue(s, i, n) ==
  IF n = 0 THEN 0
  ELSE 16 * HexDigitsValue(s, i, n - 1) + HexValue(s[i + n - 1])

\* the index at which parseInt(s, 16) starts to read digits: after an
\* optional 0x
HexStart(s) == IF Len(s) >= 2 /\ s[1] = "0" /\ s[2] \in {"x", "X"} THEN 3 ELSE 1

\* the value of the run of n hex digits of s at index from, NaN when n = 0
HexRunValue(s, from, n) == IF n = 0 THEN NaN ELSE HexDigitsValue(s, from, n)

\* parseInt(s, 16) of a string that starts with neither white space nor a
\* sign: an optional 0x, then the longest run of hex digits
ParseInt16(s) ==
  CASE Len(s) = 0 -> NaN
    [] Len(s) > 0 /\ s[1] \notin Whitespace \cup {"+", "-"} ->
         HexRunValue(s, HexStart(s), HexRun(s, HexStart(s)))

\* isNaN(value) ? null : value
NullIfNaN(value) == IF value = NaN THEN <<>> ELSE <<value>>

\* parseHexString from  if (!hex)  on
ParseHex(hex) == IF Len(hex) = 0 THEN <<>> ELSE NullIfNaN(ParseInt16(hex))

\* parseHexString(hexStr)
ParseHexString(hexStr) ==
  IF Len(hexStr) = 0 THEN <<>>
  ELSE ParseHex(SelectSeq(hexStr, LAMBDA ch : ch \notin {"<", ">"}))

\* const mapping = {}
EmptyMapping == [code \in {} |-> 0]

\* if (srcCode !== null && dstCode !== null) mapping[srcCode] = ...
AddChar(mapping, srcCode, dstCode) ==
  IF srcCode # <<>> /\ dstCode # <<>>
  THEN [code \in DOMAIN mapping \cup {srcCode[1]} |->
          IF code = srcCode[1] THEN FromCharCode(dstCode[1]) ELSE mapping[code]]
  ELSE mapping

\* the loop over the entries of one beginbfchar section, from entry i on
RECURSIVE ParseBfchar(_, _, _)
ParseBfchar(mapping, entries, i) ==
  IF i + 1 > Len(entries) THEN mapping
  ELSE ParseBfchar(AddChar(mapping, ParseHexString(entries[i]),
                           ParseHexString(entries[i + 1])),
                   entries, i + 2)

\* if (srcStart !== null && srcEnd !== null && dst !== null) the loop over
\* the codes of the range
AddRange(mapping, srcStart, srcEnd, dst) ==
  IF srcStart # <<>> /\ srcEnd # <<>> /\ dst # <<>>
  THEN [code \in DOMAIN mapping \cup (srcStart[1]..srcEnd[1]) |->
          IF code \in srcStart[1]..srcEnd[1]
          THEN FromCharCode(dst[1] + (code - srcStart[1]))
          ELSE mapping[code]]
  ELSE mapping

\* the loop over the entries of one beginbfrange section, from entry i on
RECURSIVE ParseBfrange(_, _, _)
ParseBfrange(mapping, entries, i) ==
  IF i + 2 > Len(entries) THEN mapping
  ELSE ParseBfrange(AddRange(mapping, ParseHexString(entries[i]),
                             ParseHexString(entries[i + 1]),
                             ParseHexString(entries[i + 2])),
                    entries, i + 3)

\* the matches of /begin\s+([\s\S]*?)\s+end/g in a CMap given as its words,
\* searched from word i on: the words between a begin word (at b) and the
\* first end word that is at least two words later (at e)
RECURSIVE Sections(_, _, _, _)
RECURSIVE SectionsFrom(_, _, _, _)
RECURSIVE SectionsTo(_, _, _, _, _)
Sections(words, begin, end, i) ==
  SectionsFrom(words, begin, end, IndexOf(words, begin, i))

SectionsFrom(words, begin, end, b) ==
  IF b = 0 THEN <<>>
  ELSE SectionsTo(words, begin, end, b, IndexOf(words, end, b + 2))

SectionsTo(words, begin, end, b, e) ==
  IF e = 0 THEN <<>>
  ELSE <<SubSeq(words, b + 1, e - 1)>> \o Sections(words, begin, end, e + 1)

RECURSIVE ParseSections(_, _, _)
ParseSections(mapping, sections, ranges) ==
  IF Len(sections) = 0 THEN mapping
  ELSE ParseSections(
         IF ranges THEN ParseBfrange(mapping, sections[1], 1)
         ELSE ParseBfchar(mapping, sections[1], 1),
         Tail(sections), ranges)

\* Object.keys(mapping).length > 0 ? mapping : null
NullIfEmpty(mapping) == IF DOMAIN mapping # {} THEN <<mapping>> ELSE <<>>

\* parseCMap(cmapString), the CMap given as its words: every bfchar section,
\* then every bfrange section
ParseCMap(cmapString) ==
  NullIfEmpty(
    ParseSections(
      ParseSections(EmptyMapping,
                    Sections(cmapString, W("beginbfchar"), W("endbfchar"), 1), FALSE),
      Sections(cmapString, W("beginbfrange"), W("endbfrange"), 1), TRUE))

\* this.fontDict.get(PDFName.of(name)) and the lookups that follow it, by
\* outcome: a name outside the dictionary has no entry; an entry is a font
\* whose lookup throws ("throws") or finds no font ("unresolved"), a font
\* without a ToUnicode entry ("noToUnicode"), or a font with a ToUnicode
\* stream ("stream"): the words of its CMap, and whether its data inflates
FontEntry(kind, inflates, cmapString) ==
  [kind |-> kind, inflates |-> inflates, cmapString |-> cmapString]

\* extractToUnicodeCMap(fontName): data that does not inflate is parsed as
\* it is, compressed bytes that hold no section
ExtractToUnicodeCMap(p, fontName) ==
  LET cleanFontName == IF StartsWith(fontName, "/") THEN Tail(fontName) ELSE fontName
  IN  IF p.fontDict = <<>> THEN <<>>
      ELSE IF cleanFontName \notin DOMAIN p.fontDict[1] THEN <<>>
      ELSE LET font == p.fontDict[1][cleanFontName]
           IN  CASE font.kind = "throws" -> <<>>
                 [] font.kind = "unresolved" -> <<>>
                 [] font.kind = "noToUnicode" -> <<>>
                 [] font.kind = "stream" ->
                      ParseCMap(IF font.inflates THEN font.cmapString ELSE <<>>)

\* this.fontCMaps[fontName] when it is truthy: undefined and null are not
CachedCMap(fontCMaps, fontName) ==
  IF fontName \in DOMAIN fontCMaps THEN fontCMaps[fontName] ELSE <<>>

\* a decoding loop that tries the 1-byte code before the 2-byte code
RECURSIVE DecodeCharsOneByteFirst(_, _, _)
DecodeCharsOneByteFirst(text, cmap, i) ==
  IF i > Len(text) THEN <<>>
  ELSE IF CharCodeAt(text[i]) \in DOMAIN cmap
  THEN <<CharOfUnit(cmap[CharCodeAt(text[i])])>> \o DecodeCharsOneByteFirst(text, cmap, i + 1)
  ELSE IF i + 1 <= Len(text)
          /\ CharCodeAt(text[i]) * 256 + CharCodeAt(text[i + 1]) \in DOMAIN cmap
  THEN <<CharOfUnit(cmap[CharCodeAt(text[i]) * 256 + CharCodeAt(text[i + 1])])>>
         \o DecodeCharsOneByteFirst(text, cmap, i + 2)
  ELSE <<text[i]>> \o DecodeCharsOneByteFirst(text, cmap, i + 1)

\* (charCode << 8) | text.charCodeAt(i + 1): both code units are below
\* 256, so the value is charCode * 256 + the next code unit
TwoByteCode(text, i) == CharCodeAt(text[i]) * 256 + CharCodeAt(text[i + 1])

\* the loop of decodeWithCMap from index i on
RECURSIVE DecodeChars(_, _, _)
DecodeChars(text, cmap, i) ==
  IF i > Len(text) THEN <<>>
  ELSE IF i + 1 <= Len(text) /\ TwoByteCode(text, i) \in DOMAIN cmap
  THEN <<CharOfUnit(cmap[TwoByteCode(text, i)])>> \o DecodeChars(text, cmap, i + 2)
  ELSE IF CharCodeAt(text[i]) \in DOMAIN cmap
  THEN <<CharOfUnit(cmap[CharCodeAt(text[i])])>> \o DecodeChars(text, cmap, i + 1)
  ELSE <<text[i]>> \o DecodeChars(text, cmap, i + 1)

\* result || null
OrNull(decoded) == IF decoded = <<>> THEN <<>> ELSE <<decoded>>

\* decodeWithCMap from  const cmap = this.fontCMaps[fontName]  on: the
\* value returned
DecodeWith(cmap, text) ==
  IF cmap = <<>> THEN <<>> ELSE OrNull(DecodeChars(text, cmap[1], 1))

\* the parser after extractToUnicodeCMap(fontName) returned cmap: the cache
\* holds the CMap or null, and extractCalls counts the call
AfterExtract(p, fontName, cmap) ==
  [p EXCEPT
     !.fontCMaps = [f \in DOMAIN @ \cup {fontName} |->
                      IF f = fontName THEN cmap ELSE @[f]],
     !.extractCalls = [f \in DOMAIN @ \cup {fontName} |->
                         IF f = fontName
                         THEN (IF f \in DOMAIN @ THEN @[f] ELSE 0) + 1
                         ELSE @[f]]]

\* decodeWithCMap when the cache holds nothing truthy for the font, cmap
\* being what extractToUnicodeCMap returns
DecodeExtracting(p, text, fontName, cmap) ==
  [parser |-> AfterExtract(p, fontName, cmap), result |-> DecodeWith(cmap, text)]

\* decodeWithCMap, cached being the entry of the cache
DecodeCached(p, text, fontName, cached) ==
  IF cached = <<>>
  THEN DecodeExtracting(p, text, fontName, ExtractToUnicodeCMap(p, fontName))
  ELSE [parser |-> p, result |-> DecodeWith(cached, text)]

\* decodeWithCMap(text, fontName): the parser after the call and the value
\* returned
DecodeWithCMap(p, text, fontName) ==
  DecodeCached(p, text, fontName, CachedCMap(p.fontCMaps, fontName))

\* the bytes of the hex pairs of hexContent from index i on
RECURSIVE HexBytes(_, _)
HexBytes(hexContent, i) ==
  IF i > Len(hexContent) THEN <<>>
  ELSE CASE HexRun(hexContent, i) >= 1 ->
              <<CharOfUnit(FromCharCode(ParseInt16(
                  SubSeq(hexContent, i, IF i + 1 <= Len(hexContent) THEN i + 1 ELSE i))))>>
                \o HexBytes(hexContent, i + 2)

\* decodeTextString(pdfString) up to the test of the font resources
RawTextString(pdfString) ==
  IF StartsWith(pdfString, "<") /\ EndsWith(pdfString, ">")
  THEN HexBytes(SelectSeq(SubSeq(pdfString, 2, Len(pdfString) - 1),
                          LAMBDA ch : ch \notin Whitespace), 1)
  ELSE IF StartsWith(pdfString, "(") /\ EndsWith(pdfString, ")")
  THEN Unescape(SubSeq(pdfString, 2, Len(pdfString) - 1))
  ELSE pdfString

\* a fallback that shows nothing when there is no CMap
DecodedOrEmpty(d, raw) ==
  [parser |-> d.parser, text |-> IF d.result # <<>> THEN d.result[1] ELSE <<>>]

\* if (decodedText) return decodedText; ... return pdfString, d being what
\* decodeWithCMap gave
DecodedOrRaw(d, raw) ==
  [parser |-> d.parser, text |-> IF d.result # <<>> THEN d.result[1] ELSE raw]

\* decodeTextString from the test of the font resources on, raw being the
\* string after the hex or literal decoding
DecodeRaw(p, raw) ==
  IF p.currentFont # <<>> /\ p.fontDict # <<>> /\ p.pdfContext
  THEN DecodedOrRaw(DecodeWithCMap(p, raw, p.currentFont[1]), raw)
  ELSE [parser |-> p, text |-> raw]

\* decodeTextString(pdfString): the parser after the call and the string
\* returned
DecodeTextString(p, pdfString) == DecodeRaw(p, RawTextString(pdfString))

\* the record pushed on textObjects for one shown string
TextRun(p, textString) ==
  [text |-> textString, x |-> p.textMatrix[5], y |-> p.textMatrix[6],
   font |-> p.currentFont, fontSize |-> p.currentFontSize,
   fillColor |-> p.graphicsState.fillColor, ctm |-> p.graphicsState.ctm]

\* this.textObjects.push({...}), d being what decodeTextString gave
PushTextRun(d) ==
  [d.parser EXCEPT !.textObjects = Append(@, TextRun(d.parser, d.text))]

\* a Tj that moves the text matrix to the right after the string it shows
OpShowTextAdvancing(p, operands) ==
  IF Len(operands) >= 1 /\ p.inTextObject
  THEN LET shown == PushTextRun(DecodeTextString(p, operands[1]))
       IN  [shown EXCEPT !.textMatrix[5] = Plus(@, 1)]
  ELSE p

OpShowText(p, operands) ==
  IF Len(operands) >= 1 /\ p.inTextObject
  THEN PushTextRun(DecodeTextString(p, operands[1]))
  ELSE p

\* array.matchAll(/\(([^)]*)\)/g): the captured groups, in order
RECURSIVE ParenGroups(_, _)
ParenGroups(s, i) ==
  LET open == IndexOf(s, "(", i)
      close == IF open = 0 THEN 0 ELSE IndexOf(s, ")", open + 1)
  IN  IF open = 0 \/ close = 0 THEN <<>>
      ELSE <<SubSeq(s, open + 1, close - 1)>> \o ParenGroups(s, close + 1)

\* the text runs of the groups, every one at the same text matrix
RECURSIVE ShowGroups(_, _)
ShowGroups(p, groups) ==
  IF Len(groups) = 0 THEN p
  ELSE ShowGroups(PushTextRun(DecodeTextString(p, <<"(">> \o groups[1] \o <<")">>)),
                  Tail(groups))

\* opShowTextPositioned(operands): the array is operands[0]
OpShowTextPositioned(p, operands) ==
  IF Len(operands) >= 1 /\ p.inTextObject
  THEN ShowGroups(p, ParenGroups(operands[1], 1))
  ELSE p

(***************************************************************************)
(* Operator dispatch.                                                      *)
(***************************************************************************)
\* an unknown operator that drops the path under construction
UnknownOperatorEndsPath(p, op, operands) == [p EXCEPT !.currentPath = <<>>]

\* executeOperator: the default case, for an operator with no case of its own
UnknownOperator(p, op, operands) == p

\* executeOperator(operator, operands): the switch
ExecuteOperator(p, op, operands) ==
  CASE op = T_m -> OpMoveTo(p, operands)
    [] op = T_l -> OpLineTo(p, operands)
    [] op = T_c -> OpCurveTo(p, operands)
    [] op = T_v -> OpCurveToV(p, operands)
    [] op = T_y -> OpCurveToY(p, operands)
    [] op = T_h -> OpClosePath(p)
    [] op = T_re -> OpRectangle(p, operands)
    [] op = T_S -> OpStroke(p)
    [] op = T_s -> OpStroke(OpClosePath(p))
    [] op \in {T_f, T_F} -> OpFill(p, "nonzero")
    [] op = T_fStar -> OpFill(p, "evenodd")
    [] op = T_B -> OpFillAndStroke(p, "nonzero")
    [] op = T_BStar -> OpFillAndStroke(p, "evenodd")
    [] op = T_b -> OpFillAndStroke(OpClosePath(p), "nonzero")
    [] op = T_bStar -> OpFillAndStroke(OpClosePath(p), "evenodd")
    [] op = T_n -> OpEndPath(p)
    [] op = T_w -> OpSetLineWidth(p, operands)
    [] op = T_J -> OpSetLineCap(p, operands)
    [] op = T_j -> OpSetLineJoin(p, operands)
    [] op = T_d -> OpSetDash(p, operands)
    [] op = T_q -> OpSaveState(p)
    [] op = T_Q -> OpRestoreState(p)
    [] op = T_cm -> OpConcatMatrix(p, operands)
    [] op = T_g -> OpSetGray(p, operands, "fill")
    [] op = T_G -> OpSetGray(p, operands, "stroke")
    [] op = T_rg -> OpSetRGB(p, operands, "fill")
    [] op = T_RG -> OpSetRGB(p, operands, "stroke")
    [] op = T_k -> OpSetCMYK(p, operands, "fill")
    [] op = T_K -> OpSetCMYK(p, operands, "stroke")
    [] op \in SetColorOperators -> p
    [] op = T_BT -> OpBeginText(p)
    [] op = T_ET -> OpEndText(p)
    [] op = T_Tf -> OpSetFont(p, operands)
    [] op = T_Tm -> OpSetTextMatrix(p, operands)
    [] op = T_Td -> OpMoveText(p, operands)
    [] op = T_TD -> OpMoveTextSetLeading(p, operands)
    [] op = T_Tj -> OpShowText(p, operands)
    [] op = T_TJ -> OpShowTextPositioned(p, operands)
    [] op = T_TStar -> OpNextLine(p)
    [] op = T_Quote -> OpShowText(OpNextLine(p), operands)
    [] op = T_DoubleQuote ->
         IF Len(operands) >= 3
         THEN OpShowText(OpNextLine(p), <<operands[3]>>)
         ELSE p
    [] op \in TextStateOperators -> p
    [] OTHER -> UnknownOperator(p, op, operands)

\* the characters of /^[a-zA-Z'*]+$/
OperatorChars == Letters \cup {"'", "*"}

\* /^[a-zA-Z'*]+$/.test(token)
IsOperatorToken(tok) ==
  Len(tok) > 0 /\ \A i \in 1..Len(tok) : tok[i] \in OperatorChars

\* a loop body that clears the operand stack only after an operator that
\* changed something
ProcessTokenKeepingOperands(p, stack, tok) ==
  IF IsOperatorToken(tok)
  THEN LET after == ExecuteOperator(p, tok, stack)
       IN  [parser |-> after, operandStack |-> IF after = p THEN stack ELSE <<>>,
            raised |-> FALSE]
  ELSE [parser |-> p, operandStack |-> Append(stack, tok), raised |-> FALSE]

\* executeOperator(operator, operands) raises
ExecuteOperatorRaises(p, op, operands) == op = T_v /\ OpCurveToVRaises(p, operands)

\* the body of the loop of processTokens for one token; when the operator
\* raises, the operand stack is not cleared
ProcessToken(p, stack, tok) ==
  IF IsOperatorToken(tok)
  THEN IF ExecuteOperatorRaises(p, tok, stack)
       THEN [parser |-> p, operandStack |-> stack, raised |-> TRUE]
       ELSE [parser |-> ExecuteOperator(p, tok, stack), operandStack |-> <<>>,
             raised |-> FALSE]
  ELSE [parser |-> p, operandStack |-> Append(stack, tok), raised |-> FALSE]

\* processTokens(tokens) from token i on, with the operand stack so far
RECURSIVE ProcessTokensFrom(_, _, _, _)
ProcessTokensFrom(p, stack, toks, i) ==
  IF i > Len(toks) THEN p
  ELSE LET r == ProcessToken(p, stack, toks[i])
       IN  IF r.raised THEN r.parser
           ELSE ProcessTokensFrom(r.parser, r.operandStack, toks, i + 1)

ProcessTokens(p, toks) == ProcessTokensFrom(p, <<>>, toks, 1)

(***************************************************************************)
(* The tokenizer: the alternatives of tokenRegex, tried in order at one    *)
(* position; each gives the length of its match there, 0 for no match.     *)
(***************************************************************************)
\* the length of the longest run of characters of class starting at index i
RECURSIVE RunLength(_, _, _)
RunLength(s, i, class) ==
  IF i <= Len(s) /\ s[i] \in class THEN 1 + RunLength(s, i + 1, class) ELSE 0

\* (<[0-9A-Fa-f\s]*>)
MatchHexString(s, i) ==
  IF s[i] # "<" THEN 0
  ELSE LET n == RunLength(s, i + 1, HexDigits \cup Whitespace)
           j == i + 1 + n
       IN  IF j <= Len(s) /\ s[j] = ">" THEN n + 2 ELSE 0

\* ([+-]?\d+\.?\d*)
MatchNumber(s, i) ==
  LET sign == IF s[i] \in {"+", "-"} THEN 1 ELSE 0
      int  == RunLength(s, i + sign, Digits)
      dot  == IF i + sign + int <= Len(s) /\ s[i + sign + int] = "." THEN 1 ELSE 0
      frac == RunLength(s, i + sign + int + dot, Digits)
  IN  IF int = 0 THEN 0 ELSE sign + int + dot + frac

\* (\[|\])
MatchBracket(s, i) == IF s[i] \in {"[", "]"} THEN 1 ELSE 0

\* the length of (?:[^()\\]|\\.)* at index i: a backslash takes the character
\* after it with it, unless that is a line terminator
RECURSIVE StringBodyLength(_, _)
StringBodyLength(s, i) ==
  IF i > Len(s) THEN 0
  ELSE IF s[i] = "\\"
       THEN IF i + 1 <= Len(s) /\ s[i + 1] \notin {"\n", "\r"}
            THEN 2 + StringBodyLength(s, i + 2)
            ELSE 0
       ELSE IF s[i] \in {"(", ")"} THEN 0
       ELSE 1 + StringBodyLength(s, i + 1)

\* (\((?:[^()\\]|\\.)*\))
MatchLiteralString(s, i) ==
  IF s[i] # "(" THEN 0
  ELSE LET n == StringBodyLength(s, i + 1)
           j == i + 1 + n
       IN  IF j <= Len(s) /\ s[j] = ")" THEN n + 2 ELSE 0

NameStop == Whitespace \cup {"[", "]", "(", ")", "<", ">", "/", "{", "}", "%"}

RECURSIVE NameBodyLength(_, _)
NameBodyLength(s, i) ==
  IF i <= Len(s) /\ s[i] \notin NameStop THEN 1 + NameBodyLength(s, i + 1) ELSE 0

\* \/([^\s\[\]()<>\/{}%]+)
MatchName(s, i) ==
  IF s[i] # "/" THEN 0
  ELSE LET n == NameBodyLength(s, i + 1)
       IN  IF n = 0 THEN 0 ELSE n + 1

\* an operator alternative that also takes the star
MatchOperatorWithStar(s, i) ==
  IF s[i] \notin Letters \cup {"'", "\""} THEN 0
  ELSE 1 + RunLength(s, i + 1, Letters \cup Digits \cup {"'", "\"", "*"})

\* ([a-zA-Z'"][a-zA-Z0-9'"]*)
MatchOperator(s, i) ==
  IF s[i] \notin Letters \cup {"'", "\""} THEN 0
  ELSE 1 + RunLength(s, i + 1, Letters \cup Digits \cup {"'", "\""})

\* \s+
MatchWhitespace(s, i) == RunLength(s, i, Whitespace)

\* the length of the match of tokenRegex at index i: the first alternative
\* that matches there
MatchAt(s, i) ==
  CASE MatchHexString(s, i) > 0 -> MatchHexString(s, i)
    [] MatchNumber(s, i) > 0 -> MatchNumber(s, i)
    [] MatchBracket(s, i) > 0 -> MatchBracket(s, i)
    [] MatchLiteralString(s, i) > 0 -> MatchLiteralString(s, i)
    [] MatchName(s, i) > 0 -> MatchName(s, i)
    [] MatchOperator(s, i) > 0 -> MatchOperator(s, i)
    [] OTHER -> MatchWhitespace(s, i)

\* String.prototype.trim()
RECURSIVE TrimStart(_)
TrimStart(s) ==
  IF Len(s) > 0 /\ s[1] \in Whitespace THEN TrimStart(Tail(s)) ELSE s

RECURSIVE TrimEnd(_)
TrimEnd(s) ==
  IF Len(s) > 0 /\ s[Len(s)] \in Whitespace
  THEN TrimEnd(SubSeq(s, 1, Len(s) - 1))
  ELSE s

Trim(s) == TrimEnd(TrimStart(s))

\* the loop of tokenize from index i: exec finds the next match at or after
\* i, a position with no match is skipped, a match that trims to nothing
\* gives no token
RECURSIVE TokenizeFrom(_, _)
TokenizeFrom(s, i) ==
  IF i > Len(s) THEN <<>>
  ELSE LET n == MatchAt(s, i)
       IN  IF n = 0 THEN TokenizeFrom(s, i + 1)
           ELSE LET text == Trim(SubSeq(s, i, i + n - 1))
                IN  IF Len(text) > 0
                    THEN <<text>> \o TokenizeFrom(s, i + n)
                    ELSE TokenizeFrom(s, i + n)

Tokenize(content) == TokenizeFrom(content, 1)

(***************************************************************************)
(* The state: the fields of one PDFContentParser, the locals of            *)
(* parseContentStream and processTokens, and history variables.            *)
(***************************************************************************)
VARIABLES
  paths, currentPath, textObjects, graphicsState, stateStack,
  inTextObject, currentFont, currentFontSize, textMatrix, textLineMatrix,
  fontDict, pdfContext, fontCMaps,
  \* history: the calls of extractToUnicodeCMap so far, by font name
  extractCalls,
  \* parseContentStream / processTokens: the buffer, its tokens, the index
  \* of the next token, the operand stack, and where the call stands
  content, tokens, i, operandStack, pc,
  \* the number of operators dispatched so far
  dispatched,
  \* history: the graphics state at each `q` not yet matched by a `Q`
  savedAt,
  \* history: set by a `Q` that matched a `q`, cleared by the next token:
  \* the state at the matching `q` and the live state the `Q` replaced
  lastRestore,
  \* history: the operand matrices of the `cm` operators so far, while the
  \* stream has dispatched nothing but `cm` with six numeric operands
  cmLog,
  \* history: the graphics state when the open path was created
  openedAt,
  \* history: the number of open paths dropped without being recorded
  discarded,
  \* history: for each recorded path, the graphics state when it was
  \* created and when its painting operator executed, that operator, and
  \* the number of paths dropped before
  pathLog,
  \* the family and the parameters the buffer was written from
  scenario,
  \* the value returned by the call of a function applied on its own
  result,
  \* the SVGPathConverter object (options, scaleX, scaleY, offsetX, offsetY)
  \* once it is constructed
  converter,
  \* PDFProcessor.extractContentPaths: the paths collected so far, the index
  \* of the page at hand and the number of its streams already handled
  allPaths, pageIndex, streamIndex

parserVars ==
  <<paths, currentPath, textObjects, graphicsState, stateStack,
    inTextObject, currentFont, currentFontSize, textMatrix, textLineMatrix,
    fontDict, pdfContext, fontCMaps, extractCalls>>

\* the locals of extractContentPaths
extractVars == <<allPaths, pageIndex, streamIndex>>

\* the history, the converter and the processor, that a call of a function
\* on its own leaves alone
callHistory ==
  <<savedAt, lastRestore, cmLog, openedAt, discarded, pathLog, scenario, converter,
    extractVars>>

historyVars == <<callHistory, result>>

vars == <<parserVars, content, tokens, i, operandStack, pc, dispatched, historyVars>>

\* everything but pc and result
callFrame == <<parserVars, content, tokens, i, operandStack, dispatched, callHistory>>

\* the parser object of the current state
Parser ==
  [paths |-> paths, currentPath |-> currentPath, textObjects |-> textObjects,
   graphicsState |-> graphicsState, stateStack |-> stateStack,
   inTextObject |-> inTextObject, currentFont |-> currentFont,
   currentFontSize |-> currentFontSize,
   textMatrix |-> textMatrix, textLineMatrix |-> textLineMatrix,
   fontDict |-> fontDict, pdfContext |-> pdfContext,
   fontCMaps |-> fontCMaps, extractCalls |-> extractCalls]

SetParser(np) ==
  /\ paths' = np.paths
  /\ currentPath' = np.currentPath
  /\ textObjects' = np.textObjects
  /\ graphicsState' = np.graphicsState
  /\ stateStack' = np.stateStack
  /\ inTextObject' = np.inTextObject
  /\ currentFont' = np.currentFont
  /\ currentFontSize' = np.currentFontSize
  /\ textMatrix' = np.textMatrix
  /\ textLineMatrix' = np.textLineMatrix
  /\ fontDict' = np.fontDict
  /\ pdfContext' = np.pdfContext
  /\ fontCMaps' = np.fontCMaps
  /\ extractCalls' = np.extractCalls

Last(s) == s[Len(s)]

Front(s) == SubSeq(s, 1, Len(s) - 1)

\* a token that is a number as a whole
IsNumericToken(tok) == Len(tok) > 0 /\ MatchNumber(tok, 1) = Len(tok)

\* the history after the loop body has run on tok, np being the parser after
RecordHistory(tok, np) ==
  /\ savedAt' = IF tok = T_q THEN Append(savedAt, graphicsState)
                ELSE IF tok = T_Q /\ savedAt # <<>> THEN Front(savedAt)
                ELSE savedAt
  /\ lastRestore' = IF tok = T_Q /\ savedAt # <<>>
                    THEN <<[expected |-> Last(savedAt), discarded |-> graphicsState]>>
                    ELSE <<>>
  /\ cmLog' = IF ~IsOperatorToken(tok) \/ ~cmLog.valid THEN cmLog
              ELSE IF tok = T_cm /\ Len(operandStack) = 6
                      /\ \A k \in 1..6 : IsNumericToken(operandStack[k])
              THEN [cmLog EXCEPT !.ms = Append(@, OperandMatrix(operandStack))]
              ELSE [cmLog EXCEPT !.valid = FALSE]
  /\ openedAt' = IF currentPath = <<>> /\ np.currentPath # <<>> THEN <<graphicsState>>
                 ELSE IF np.currentPath = <<>> THEN <<>>
                 ELSE openedAt
  /\ discarded' = IF currentPath # <<>> /\ np.currentPath = <<>> /\ np.paths = paths
                  THEN discarded + 1
                  ELSE discarded
  /\ pathLog' = IF Len(np.paths) > Len(paths)
                THEN Append(pathLog, [atOpen |-> openedAt, atPaint |-> graphicsState,
                                      op |-> tok, discards |-> discarded])
                ELSE pathLog
  /\ scenario' = scenario
  /\ result' = result
  /\ converter' = converter
  /\ UNCHANGED extractVars

\* one iteration of the loop of processTokens, on token tok
Step(tok) ==
  LET r == ProcessToken(Parser, operandStack, tok)
  IN  /\ SetParser(r.parser)
      /\ operandStack' = r.operandStack
      /\ dispatched' = IF IsOperatorToken(tok) THEN dispatched + 1 ELSE dispatched
      /\ RecordHistory(tok, r.parser)

\* the parser is np, as constructed
InitParserAs(np) ==
  /\ paths = np.paths
  /\ currentPath = np.currentPath
  /\ textObjects = np.textObjects
  /\ graphicsState = np.graphicsState
  /\ stateStack = np.stateStack
  /\ inTextObject = np.inTextObject
  /\ currentFont = np.currentFont
  /\ currentFontSize = np.currentFontSize
  /\ textMatrix = np.textMatrix
  /\ textLineMatrix = np.textLineMatrix
  /\ fontDict = np.fontDict
  /\ pdfContext = np.pdfContext
  /\ fontCMaps = np.fontCMaps
  /\ extractCalls = np.extractCalls

InitParser == InitParserAs(NewParser)

InitHistory ==
  /\ savedAt = <<>>
  /\ lastRestore = <<>>
  /\ cmLog = [valid |-> TRUE, ms |-> <<>>]
  /\ openedAt = <<>>
  /\ discarded = 0
  /\ pathLog = <<>>
  /\ result = <<>>
  /\ converter = <<>>
  /\ allPaths = <<>>
  /\ pageIndex = 0
  /\ streamIndex = 0

(***************************************************************************)
(* Spec: the dispatch loop on the tokens of an arbitrary stream, every     *)
(* operator of the path and graphics-state tables.  The operands before an *)
(* operator are one of OperandLists or a prefix of one; any operator may   *)
(* follow any of them.                                                     *)
(***************************************************************************)
OperandLists ==
  { <<<<"2">>, <<"0">>, <<"1">>, <<"2">>, <<"1">>, <<"0">>>>,
    <<<<"3">>, <<"1">>, <<"-", "2">>, <<"-", "1">>>> }

Prefixes(lists) == UNION { { SubSeq(l, 1, n) : n \in 0..Len(l) } : l \in lists }

TokensOf(lists) == UNION { { l[n] : n \in 1..Len(l) } : l \in lists }

PathConstructionOperators == {T_m, T_l, T_c, T_v, T_y, T_h, T_re}

PathPaintingOperators == {T_S, T_s, T_f, T_F, T_fStar, T_B, T_BStar, T_b, T_bStar, T_n}

GraphicsStateOperators == {T_w, T_J, T_j, T_d, T_q, T_Q, T_cm}

ColorOperators == {T_g, T_G, T_rg, T_RG, T_k, T_K} \cup SetColorOperators

Init ==
  /\ InitParser
  /\ InitHistory
  /\ content = <<>>
  /\ tokens = <<>>
  /\ i = 0
  /\ operandStack = <<>>
  /\ pc = "dispatch"
  /\ dispatched = 0
  /\ scenario = <<>>

\* the loop runs on token tok, which the stream supplies
Feed(tok) == Step(tok) /\ UNCHANGED <<content, tokens, i, pc>>

\* a token that is not an operator is pushed on the operand stack
PushOperand ==
  /\ dispatched < MaxOps
  /\ \E tok \in TokensOf(OperandLists) :
       /\ Append(operandStack, tok) \in Prefixes(OperandLists)
       /\ Feed(tok)

\* an operator of the path construction or path painting cases
PathOperator ==
  /\ dispatched < MaxOps
  /\ \E tok \in PathConstructionOperators \cup PathPaintingOperators : Feed(tok)

\* an operator of the graphics state or colour cases, or one of no case
StateOperator ==
  /\ dispatched < MaxOps
  /\ \E tok \in GraphicsStateOperators \cup ColorOperators \cup {T_zz} : Feed(tok)

Next ==
  \/ PushOperand
  \/ PathOperator
  \/ StateOperator

Spec == Init /\ [][Next]_vars

(***************************************************************************)
(* SpecGS: the dispatch loop on streams of graphics-state and colour       *)
(* operators, with two operand lists whose matrices do not commute.        *)
(***************************************************************************)
MatrixOperandLists ==
  { <<<<"2">>, <<"0">>, <<"0">>, <<"2">>, <<"1">>, <<"0">>>>,
    <<<<"0">>, <<"1">>, <<"-", "1">>, <<"0">>, <<"0">>, <<"3">>>> }

PushStateOperand ==
  /\ dispatched < MaxStateOps
  /\ \E tok \in TokensOf(MatrixOperandLists) :
       /\ Append(operandStack, tok) \in Prefixes(MatrixOperandLists)
       /\ Feed(tok)

\* q or Q
SaveOrRestoreState ==
  /\ dispatched < MaxStateOps
  /\ \E tok \in {T_q, T_Q} : Feed(tok)

\* cm, a line style operator or a colour operator
ChangeGraphicsState ==
  /\ dispatched < MaxStateOps
  /\ \E tok \in {T_cm, T_w, T_J, T_j, T_d, T_g, T_rg, T_RG, T_K} : Feed(tok)

NextGS ==
  \/ PushStateOperand
  \/ SaveOrRestoreState
  \/ ChangeGraphicsState

SpecGS == Init /\ [][NextGS]_vars

(***************************************************************************)
(* SpecPath: the dispatch loop on streams that build, paint and discard    *)
(* several paths and show text while the colours and the CTM change.       *)
(***************************************************************************)
PathOperandLists ==
  { <<<<"1">>, <<"0">>, <<"0">>, <<"1">>, <<"2">>, <<"3">>>>,
    <<<<"(", "A", ")">>>> }

\* an operator that builds, paints or discards a path
BuildOrPaintPath ==
  /\ dispatched < MaxPathOps
  /\ \E tok \in {T_m, T_l, T_re, T_S, T_fStar, T_b, T_n} : Feed(tok)

\* an operator that changes the graphics state or shows text
ChangeStateOrShowText ==
  /\ dispatched < MaxPathOps
  /\ \E tok \in {T_RG, T_rg, T_cm, T_q, T_Q, T_BT, T_Tj, T_TJ, T_Td} : Feed(tok)

PushPathOperand ==
  /\ dispatched < MaxPathOps
  /\ \E tok \in TokensOf(PathOperandLists) :
       /\ Append(operandStack, tok) \in Prefixes(PathOperandLists)
       /\ Feed(tok)

NextPath ==
  \/ PushPathOperand
  \/ BuildOrPaintPath
  \/ ChangeStateOrShowText

SpecPath == Init /\ [][NextPath]_vars

(***************************************************************************)
(* SpecParse: parseContentStream end to end, the tokenizer followed by the *)
(* dispatch loop, on the buffers of two families: a polygon                *)
(*   [1 0 0 RG] x0 y0 m  x1 y1 l ... xk yk l  h S                          *)
(* and a fixed open path followed by one painting operator.                *)
(***************************************************************************)
Coordinates == {10, 50}

\* the decimal digits of a natural number
RECURSIVE Decimal(_)
Decimal(n) ==
  IF n < 10 THEN <<HexChar(n)>>
  ELSE Append(Decimal(n \div 10), HexChar(n % 10))

\* the words written one after the other, a space between two
RECURSIVE Spaced(_)
Spaced(words) ==
  IF Len(words) = 0 THEN <<>>
  ELSE IF Len(words) = 1 THEN words[1]
  ELSE words[1] \o <<" ">> \o Spaced(Tail(words))

RECURSIVE LineWords(_, _)
LineWords(pts, k) ==
  IF k > Len(pts) THEN <<>>
  ELSE <<Decimal(pts[k][1]), Decimal(pts[k][2]), T_l>> \o LineWords(pts, k + 1)

PolygonWords(sc) ==
  (IF sc.rg THEN <<<<"1">>, <<"0">>, <<"0">>, T_RG>> ELSE <<>>)
    \o <<Decimal(sc.pts[1][1]), Decimal(sc.pts[1][2]), T_m>>
    \o LineWords(sc.pts, 2)
    \o <<T_h, T_S>>

\* the open path every buffer of the painting family starts with
OpenPathWords ==
  << Decimal(10), Decimal(10), T_m, Decimal(50), Decimal(10), T_l,
     Decimal(50), Decimal(50), T_l >>

Render(sc) ==
  IF sc.kind = "polygon" THEN Spaced(PolygonWords(sc))
  ELSE Spaced(OpenPathWords \o <<sc.op>>)

PointLists ==
  UNION { [1..n -> Coordinates \X Coordinates] : n \in 1..(MaxLines + 1) }

PolygonScenarios ==
  { [kind |-> "polygon", rg |-> rg, pts |-> pts, op |-> <<>>] :
      rg \in BOOLEAN, pts \in PointLists }

PaintScenarios ==
  { [kind |-> "paint", rg |-> FALSE, pts |-> <<>>, op |-> op] :
      op \in PathPaintingOperators }

InitParse ==
  /\ InitParser
  /\ InitHistory
  /\ scenario \in PolygonScenarios \cup PaintScenarios
  /\ content = Render(scenario)
  /\ tokens = <<>>
  /\ i = 0
  /\ operandStack = <<>>
  /\ pc = "new"
  /\ dispatched = 0

\* parseContentStream: tokens = this.tokenize(content)
TokenizeStream ==
  /\ pc = "new"
  /\ tokens' = Tokenize(content)
  /\ i' = 1
  /\ pc' = "dispatch"
  /\ UNCHANGED <<parserVars, content, operandStack, dispatched, historyVars>>

\* processTokens: the loop body on tokens[i]; an operator that raises ends
\* the loop in the catch of parseContentStream
ProcessNextToken ==
  /\ pc = "dispatch"
  /\ i <= Len(tokens)
  /\ Step(tokens[i])
  /\ i' = i + 1
  /\ pc' = IF ExecuteOperatorRaises(Parser, tokens[i], operandStack) /\ IsOperatorToken(tokens[i])
           THEN "caught" ELSE pc
  /\ UNCHANGED <<content, tokens>>

\* parseContentStream returns { paths, textObjects }, or from its catch
\* { paths: [], textObjects: [] }
ReturnResult ==
  /\ IF pc = "dispatch" THEN i > Len(tokens) ELSE pc = "caught"
  /\ result' = Append(result,
                      IF pc = "caught" THEN [paths |-> <<>>, textObjects |-> <<>>]
                      ELSE [paths |-> paths, textObjects |-> textObjects])
  /\ pc' = "done"
  /\ UNCHANGED <<parserVars, content, tokens, i, operandStack, dispatched, callHistory>>

NextParse ==
  \/ TokenizeStream
  \/ ProcessNextToken
  \/ ReturnResult

SpecParse == InitParse /\ [][NextParse]_vars

(***************************************************************************)
(* SpecTextParse: parseContentStream end to end on the buffers             *)
(*   [1 0 0 rg] [2 0 0 2 5 10 cm] BT /F1 size Tf [/F2 5 Tf] x y Td         *)
(*   (str) Tj  tail  ET                                                    *)
(* where tail is nothing, a TJ with an array of k strings, a T* or a '     *)
(* or a " followed by a further Tj, or an ET followed by a '.  The parser  *)
(* is new PDFContentParser().                                              *)
(***************************************************************************)
\* the largest number of strings in the array of a TJ
MaxStrings == 3

\* the strings of the array of a TJ, in order
ArrayStrings == <<W("(A)"), W("(B)"), W("(C)"), W("(D)")>>

\* ( s1 ) 5 ( s2 ) 5 ... ( sk ), each a word of its own
RECURSIVE ArrayWords(_)
ArrayWords(k) ==
  IF k = 0 THEN <<>>
  ELSE IF k = 1 THEN <<ArrayStrings[1]>>
  ELSE ArrayWords(k - 1) \o <<W("5"), ArrayStrings[k]>>

TailWords(sc) ==
  CASE sc.tail = "none" -> <<>>
    [] sc.tail = "TJ" -> <<W("[")>> \o ArrayWords(sc.k) \o <<W("]"), T_TJ>>
    [] sc.tail = "TStar" -> <<T_TStar, W("(B)"), T_Tj>>
    [] sc.tail = "Quote" -> <<W("(B)"), T_Quote>>
    [] sc.tail = "DoubleQuote" -> <<W("5"), W("10"), W("(B)"), T_DoubleQuote, W("(C)"), T_Tj>>
    [] sc.tail = "QuoteAfterET" -> <<T_ET, W("(B)"), T_Quote>>

TextWords(sc) ==
  (IF sc.rg THEN <<W("1"), W("0"), W("0"), T_rg>> ELSE <<>>)
    \o (IF sc.cm THEN <<W("2"), W("0"), W("0"), W("2"), W("5"), W("10"), T_cm>> ELSE <<>>)
    \o <<T_BT, W("/F1"), Decimal(sc.size), T_Tf>>
    \o (IF sc.tf2 THEN <<W("/F2"), W("5"), T_Tf>> ELSE <<>>)
    \o <<Decimal(sc.x), Decimal(sc.y), T_Td, <<"(">> \o sc.str \o <<")">>, T_Tj>>
    \o TailWords(sc)
    \o <<T_ET>>

TextScenarios ==
  { sc \in [ kind : {"text"}, rg : BOOLEAN, cm : BOOLEAN, tf2 : BOOLEAN,
             size : {10, 12}, x : {0, 100}, y : {700}, str : {W("Hi"), W("A")},
             tail : {"none", "TJ", "TStar", "Quote", "DoubleQuote", "QuoteAfterET"},
             k : 1..MaxStrings ] :
      /\ sc.tail # "TJ" => sc.k = 1
      /\ sc.tail \in {"Quote", "QuoteAfterET"} => sc.size = 10 }

InitTextParse ==
  /\ InitParser
  /\ InitHistory
  /\ scenario \in TextScenarios
  /\ content = Spaced(TextWords(scenario))
  /\ tokens = <<>>
  /\ i = 0
  /\ operandStack = <<>>
  /\ pc = "new"
  /\ dispatched = 0

SpecTextParse == InitTextParse /\ [][NextParse]_vars

(***************************************************************************)
(* SpecMalformed: parseContentStream on the streams made of up to          *)
(* MaxPhrases of the phrases below, in any order: unknown operators,       *)
(* operands that are no numbers, Q and ET with nothing to match, path      *)
(* operators with no open path, operators with too few operands.           *)
(***************************************************************************)
\* the largest number of phrases in a stream
MaxPhrases == 3

Phrases ==
  { <<T_zz>>, <<T_Q>>, <<T_q>>, <<T_ET>>, <<T_S>>, <<T_h>>,
    <<W("1"), W("2"), W("3"), W("4"), T_v>>,
    <<W("1"), W("2"), W("3"), W("4"), T_re>>,
    <<W("/x"), W("/y"), T_m>>,
    <<W("5"), T_l>>,
    <<W("(A)"), T_Tj>>,
    <<W("/x"), T_Td>>,
    <<T_BT>>,
    <<W("2"), T_w>> }

RECURSIVE Flatten(_)
Flatten(seqs) == IF Len(seqs) = 0 THEN <<>> ELSE seqs[1] \o Flatten(Tail(seqs))

MalformedScenarios ==
  { [kind |-> "malformed", phrases |-> ph] :
      ph \in UNION { [1..n -> Phrases] : n \in 0..MaxPhrases } }

InitMalformed ==
  /\ InitParser
  /\ InitHistory
  /\ scenario \in MalformedScenarios
  /\ content = Spaced(Flatten(scenario.phrases))
  /\ tokens = <<>>
  /\ i = 0
  /\ operandStack = <<>>
  /\ pc = "new"
  /\ dispatched = 0

SpecMalformed == InitMalformed /\ [][NextParse]_vars

(***************************************************************************)
(* SpecReparse: parseContentStream is called on one parser with one        *)
(* buffer and then with a second one, which may be the same.  result holds *)
(* the value each call returned.                                           *)
(***************************************************************************)
\* a filled rectangle; a text run; a line width and a path left open
ReparseStreams ==
  { <<W("1"), W("2"), W("3"), W("4"), T_re, T_f>>,
    <<T_BT, W("(A)"), T_Tj, T_ET>>,
    <<W("2"), T_w, W("10"), W("20"), T_m, W("30"), W("40"), T_l>> }

ReparseScenarios ==
  [ kind : {"reparse"}, streams : ReparseStreams \X ReparseStreams ]

InitReparse ==
  /\ InitParser
  /\ InitHistory
  /\ scenario \in ReparseScenarios
  /\ content = Spaced(scenario.streams[1])
  /\ tokens = <<>>
  /\ i = 0
  /\ operandStack = <<>>
  /\ pc = "new"
  /\ dispatched = 0

\* parser.parseContentStream(stream) on the parser of the call before: the
\* constructor alone sets paths, textObjects and the states
ParseAgain ==
  /\ pc = "done"
  /\ Len(result) < Len(scenario.streams)
  /\ content' = Spaced(scenario.streams[Len(result) + 1])
  /\ tokens' = <<>>
  /\ i' = 0
  /\ operandStack' = <<>>
  /\ pc' = "new"
  /\ UNCHANGED <<parserVars, dispatched, historyVars>>

NextReparse ==
  \/ TokenizeStream
  \/ ProcessNextToken
  \/ ReturnResult
  \/ ParseAgain

SpecReparse == InitReparse /\ [][NextReparse]_vars

(***************************************************************************)
(* SpecPosition: parseContentStream on BT followed by up to MaxPhrases of  *)
(* the phrases below, in any order: the positioning operators Tm, Td and   *)
(* TD, Tj, and further BT and ET.                                          *)
(***************************************************************************)
PositionPhrases ==
  { <<T_BT>>, <<T_ET>>,
    <<W("1"), W("0"), W("0"), W("1"), W("30"), W("40"), T_Tm>>,
    <<W("2"), W("0"), W("0"), W("2"), W("7"), W("-1"), T_Tm>>,
    <<W("1"), W("2"), T_Td>>,
    <<W("5"), W("-3"), T_TD>>,
    <<W("(A)"), T_Tj>> }

PositionScenarios ==
  { [kind |-> "position", phrases |-> ph] :
      ph \in UNION { [1..n -> PositionPhrases] : n \in 0..MaxPhrases } }

InitPosition ==
  /\ InitParser
  /\ InitHistory
  /\ scenario \in PositionScenarios
  /\ content = Spaced(<<T_BT>> \o Flatten(scenario.phrases))
  /\ tokens = <<>>
  /\ i = 0
  /\ operandStack = <<>>
  /\ pc = "new"
  /\ dispatched = 0

SpecPosition == InitPosition /\ [][NextParse]_vars

(***************************************************************************)
(* SpecSubpaths: processTokens on the token list made of up to MaxPhrases  *)
(* of the phrases below, in any order: every path construction operator    *)
(* with its operands, an m with one operand, every path painting operator, *)
(* and a d.                                                                *)
(***************************************************************************)
SubpathPhrases ==
  { <<W("1"), W("2"), T_m>>,
    <<W("1"), T_m>>,
    <<W("1"), W("2"), W("3"), W("4"), T_re>>,
    <<W("5"), W("6"), T_l>>,
    <<W("1"), W("2"), W("3"), W("4"), W("5"), W("6"), T_c>>,
    <<W("1"), W("2"), W("3"), W("4"), T_v>>,
    <<W("1"), W("2"), W("3"), W("4"), T_y>>,
    <<T_h>>,
    <<W("["), W("3"), W("]"), W("0"), T_d>> }
  \cup { <<op>> : op \in PathPaintingOperators }

SubpathScenarios ==
  { [kind |-> "subpaths", phrases |-> ph] :
      ph \in UNION { [1..n -> SubpathPhrases] : n \in 0..MaxPhrases } }

\* processTokens(tokens) of a new parser
InitSubpaths ==
  /\ InitParser
  /\ InitHistory
  /\ scenario \in SubpathScenarios
  /\ content = <<>>
  /\ tokens = Flatten(scenario.phrases)
  /\ i = 1
  /\ operandStack = <<>>
  /\ pc = "dispatch"
  /\ dispatched = 0

NextTokens ==
  \/ ProcessNextToken
  \/ ReturnResult

SpecSubpaths == InitSubpaths /\ [][NextTokens]_vars

(***************************************************************************)
(* SpecShow: processTokens on the token list made of BT and up to          *)
(* MaxPhrases of the phrases below, in any order: Tj, TJ with an array in  *)
(* one operand and with the opening bracket alone as the tokenizer gives   *)
(* it, Tm, Td, ET and BT.                                                  *)
(***************************************************************************)
ShowPhrases ==
  { <<W("(A)"), T_Tj>>,
    <<W("[(A)-5(B)]"), T_TJ>>,
    <<W("["), W("(A)"), W("5"), W("(B)"), W("]"), T_TJ>>,
    <<W("1"), W("0"), W("0"), W("1"), W("30"), W("40"), T_Tm>>,
    <<W("1"), W("2"), T_Td>>,
    <<T_ET>>, <<T_BT>> }

ShowScenarios ==
  { [kind |-> "show", phrases |-> ph] :
      ph \in UNION { [1..n -> ShowPhrases] : n \in 0..MaxPhrases } }

InitShow ==
  /\ InitParser
  /\ InitHistory
  /\ scenario \in ShowScenarios
  /\ content = <<>>
  /\ tokens = <<T_BT>> \o Flatten(scenario.phrases)
  /\ i = 1
  /\ operandStack = <<>>
  /\ pc = "dispatch"
  /\ dispatched = 0

SpecShow == InitShow /\ [][NextTokens]_vars

(***************************************************************************)
(* SpecExtract: PDFProcessor.extractContentPaths on a document of up to    *)
(* MaxPages pages.  A page has no /Contents or an array of one or two      *)
(* stream references; a reference leads to a stream with contents or to    *)
(* none.  An object is a record, and has the properties that are its       *)
(* fields.  None of the streams makes the parser raise.                    *)
(***************************************************************************)
\* the largest number of pages of a document
MaxPages == 2

\* one filled rectangle; a stroked line and a filled rectangle; text only
StreamContents ==
  { Spaced(<<W("1"), W("2"), W("3"), W("4"), T_re, T_f>>),
    Spaced(<<W("1"), W("2"), T_m, W("3"), W("4"), T_l, T_S,
             W("5"), W("6"), W("7"), W("8"), T_re, T_f>>),
    Spaced(<<T_BT, W("(A)"), T_Tj, T_ET>>) }

\* parser.parseContentStream(stream): the object returned
ParseContentStream(p, stream) ==
  LET after == ProcessTokens(p, Tokenize(stream))
  IN  [paths |-> after.paths, textObjects |-> after.textObjects]

\* what context.lookup(streamRef) gives: nothing usable, or a stream, here
\* with the value that  new PDFContentParser().parseContentStream  returns
\* for its contents (line 191; it depends on the contents alone)
Streams ==
  {<<>>} \cup { <<[contents |-> c, parsed |-> ParseContentStream(NewParser, c)]>> :
                   c \in StreamContents }

Pages ==
  {[contents |-> <<>>]}
    \cup { [contents |-> <<ss>>] : ss \in UNION { [1..n -> Streams] : n \in 1..2 } }

ExtractScenarios ==
  { [kind |-> "extract", pages |-> pp] :
      pp \in UNION { [1..n -> Pages] : n \in 0..MaxPages } }

\* obj[name] !== undefined
HasProperty(obj, name) == name \in DOMAIN obj

\* paths.forEach(path => { path.page = pageIndex; })
TagWithPage(ps, page) == [k \in 1..Len(ps) |-> ps[k] @@ [page |-> page]]

\* generatePathStatistics(paths): the total
GeneratePathStatistics(ps) == [total |-> Len(ps)]

\* the streams of the page at hand
StreamsOfPage ==
  LET page == scenario.pages[pageIndex + 1]
  IN  IF page.contents = <<>> THEN <<>> ELSE page.contents[1]

InitExtract ==
  /\ InitParser
  /\ InitHistory
  /\ scenario \in ExtractScenarios
  /\ content = <<>>
  /\ tokens = <<>>
  /\ i = 0
  /\ operandStack = <<>>
  /\ pc = "pages"
  /\ dispatched = 0

\* everything but pc, result and the locals of extractContentPaths
extractFrame ==
  <<parserVars, content, tokens, i, operandStack, dispatched, savedAt, lastRestore,
    cmLog, openedAt, discarded, pathLog, scenario, converter>>

\* the body of  for (const streamRef of streams): a stream without contents
\* is skipped; paths.forEach raises a TypeError when the value returned by
\* parseContentStream has no forEach, and the catch of the body logs it
HandleStream ==
  /\ pc = "pages"
  /\ pageIndex < Len(scenario.pages)
  /\ streamIndex < Len(StreamsOfPage)
  /\ LET stream == StreamsOfPage[streamIndex + 1]
     IN  IF stream = <<>> THEN allPaths' = allPaths
         ELSE LET parsed == stream[1].parsed
              IN  allPaths' = IF HasProperty(parsed, "forEach")
                              THEN allPaths \o TagWithPage(parsed, pageIndex)
                              ELSE allPaths
  /\ streamIndex' = streamIndex + 1
  /\ UNCHANGED <<pageIndex, pc, result, extractFrame>>

\* the end of the body of the loop over the pages, and the continue of a
\* page with no /Contents
NextPage ==
  /\ pc = "pages"
  /\ pageIndex < Len(scenario.pages)
  /\ streamIndex = Len(StreamsOfPage)
  /\ pageIndex' = pageIndex + 1
  /\ streamIndex' = 0
  /\ UNCHANGED <<allPaths, pc, result, extractFrame>>

\* return { paths: allPaths, pathsByPage, statistics }
ReturnPaths ==
  /\ pc = "pages"
  /\ pageIndex = Len(scenario.pages)
  /\ result' = <<[paths |-> allPaths, statistics |-> GeneratePathStatistics(allPaths)]>>
  /\ pc' = "done"
  /\ UNCHANGED <<extractVars, extractFrame>>

NextExtract ==
  \/ HandleStream
  \/ NextPage
  \/ ReturnPaths

SpecExtract == InitExtract /\ [][NextExtract]_vars

(***************************************************************************)
(* SpecLiteral: parseContentStream on  BT ( ... ) Tj ET  where the body of *)
(* the literal string is made of up to MaxPieces of the pieces below:      *)
(* plain letters, escape sequences, and a nested pair of parentheses.      *)
(***************************************************************************)
\* the largest number of pieces in the body of a literal string
MaxPieces == 2

StringPieces ==
  { <<"a">>, <<"n">>, <<"\\", "n">>, <<"\\", "\\">>, <<"\\", "(">>, <<"\\", ")">>,
    <<"(", "b", ")">> }

LiteralScenarios ==
  [ kind : {"literal"},
    pieces : UNION { [1..n -> StringPieces] : n \in 0..MaxPieces } ]

\* the literal string of a scenario, parentheses included
LiteralOf(sc) == <<"(">> \o Flatten(sc.pieces) \o <<")">>

InitLiteral ==
  /\ InitParser
  /\ InitHistory
  /\ scenario \in LiteralScenarios
  /\ content = Spaced(<<T_BT, LiteralOf(scenario), T_Tj, T_ET>>)
  /\ tokens = <<>>
  /\ i = 0
  /\ operandStack = <<>>
  /\ pc = "new"
  /\ dispatched = 0

SpecLiteral == InitLiteral /\ [][NextParse]_vars

(***************************************************************************)
(* SpecColour: the dispatch loop on streams of k and K, each with up to    *)
(* four operands that are 0 or 1, and of gray settings in between.         *)
(***************************************************************************)
\* the largest number of operators in a stream of colour operators
MaxColourOps == 3

ColourOperands == {W("0"), W("1")}

\* a component of a CMYK colour
PushColourOperand ==
  /\ dispatched < MaxColourOps
  /\ Len(operandStack) < 4
  /\ \E tok \in ColourOperands : Feed(tok)

\* k or K
SetCMYKColour ==
  /\ dispatched < MaxColourOps
  /\ \E tok \in {T_k, T_K} : Feed(tok)

\* g or G
SetGrayColour ==
  /\ dispatched < MaxColourOps
  /\ \E tok \in {T_g, T_G} : Feed(tok)

NextColour ==
  \/ PushColourOperand
  \/ SetCMYKColour
  \/ SetGrayColour

SpecColour == Init /\ [][NextColour]_vars

(***************************************************************************)
(* SVGPathConverter (src/svg-path-converter.js).  An option that may be    *)
(* absent is a sequence of length 0 or 1.  The quotients svgWidth /        *)
(* pdfWidth of the streams explored are integers.                          *)
(***************************************************************************)
\* constructor: options.pdfWidth || 612, options.svgWidth || 612
DefaultWidth == 612

\* constructor: options.pdfHeight || 792, options.svgHeight || 792
DefaultHeight == 792

\* constructor: precision 3 when options.precision is undefined
DefaultPrecision == 3

\* a || b for a number a
OrElse(a, b) == IF a = <<>> \/ a[1] = 0 \/ a[1] = NaN THEN b ELSE a[1]

\* a !== undefined ? a : b
IfDefined(a, b) == IF a = <<>> THEN b ELSE a[1]

\* a / b where b divides a
Divide(a, b) == CASE b > 0 /\ a % b = 0 -> a \div b

\* a - b
Minus(a, b) == IF a = NaN \/ b = NaN THEN NaN ELSE a - b

\* Math.min(a, b)
MathMin(a, b) == IF a = NaN \/ b = NaN THEN NaN ELSE IF a < b THEN a ELSE b

\* Math.max(a, b)
MathMax(a, b) == IF a = NaN \/ b = NaN THEN NaN ELSE IF a > b THEN a ELSE b

\* calculateScaleFactors(): the converter with these options
CalculateScaleFactors(options) ==
  LET cropped == options.cropBox # <<>>
      effectivePdfWidth == IF cropped THEN options.cropBox[1].width ELSE options.pdfWidth
      effectivePdfHeight == IF cropped THEN options.cropBox[1].height ELSE options.pdfHeight
  IN  [options |-> options,
       scaleX |-> Divide(options.svgWidth, effectivePdfWidth),
       scaleY |-> Divide(options.svgHeight, effectivePdfHeight),
       offsetX |-> IF cropped THEN options.cropBox[1].x ELSE 0,
       offsetY |-> IF cropped THEN options.cropBox[1].y ELSE 0]

\* new SVGPathConverter(options)
NewConverter(options) ==
  CalculateScaleFactors(
    [pdfWidth |-> OrElse(options.pdfWidth, DefaultWidth),
     pdfHeight |-> OrElse(options.pdfHeight, DefaultHeight),
     svgWidth |-> OrElse(options.svgWidth, DefaultWidth),
     svgHeight |-> OrElse(options.svgHeight, DefaultHeight),
     cropBox |-> options.cropBox,
     precision |-> IfDefined(options.precision, DefaultPrecision),
     flipY |-> IfDefined(options.flipY, TRUE),
     applyTransform |-> IfDefined(options.applyTransform, TRUE)])

\* transformPoint: tx = a x + c y + e, ty = b x + d y + f
ApplyMatrix(point, m) ==
  Point(Plus(Plus(Times(m.a, point.x), Times(m.c, point.y)), m.e),
        Plus(Plus(Times(m.b, point.x), Times(m.d, point.y)), m.f))

\* transformPoint: x -= offsetX, y -= offsetY
SubtractOffset(conv, point) ==
  Point(Minus(point.x, conv.offsetX), Minus(point.y, conv.offsetY))

\* transformPoint: y = effectiveHeight - y when flipY
FlipY(conv, point) ==
  IF conv.options.flipY
  THEN Point(point.x,
             Minus(IF conv.options.cropBox # <<>> THEN conv.options.cropBox[1].height
                   ELSE conv.options.pdfHeight,
                   point.y))
  ELSE point

\* transformPoint: x *= scaleX, y *= scaleY
Scale(conv, point) == Point(Times(point.x, conv.scaleX), Times(point.y, conv.scaleY))

\* a transformPoint that flips before it subtracts the crop offset
TransformPointFlippingFirst(conv, point, transform) ==
  Scale(conv,
    SubtractOffset(conv,
      FlipY(conv,
        IF conv.options.applyTransform /\ transform # <<>>
        THEN ApplyMatrix(point, transform[1])
        ELSE point)))

\* transformPoint(point, transform); transform is <<>> when none is given
TransformPoint(conv, point, transform) ==
  Scale(conv,
    FlipY(conv,
      SubtractOffset(conv,
        IF conv.options.applyTransform /\ transform # <<>>
        THEN ApplyMatrix(point, transform[1])
        ELSE point)))

\* n characters 0
Zeros(n) == [k \in 1..n |-> "0"]

\* formatCoord(coord): coord.toFixed(precision) of an integer or NaN
FormatCoord(conv, coord) ==
  IF coord = NaN THEN W("NaN")
  ELSE (IF coord < 0 THEN <<"-">> \o Decimal(0 - coord) ELSE Decimal(coord))
         \o (IF conv.options.precision > 0
             THEN <<".">> \o Zeros(conv.options.precision)
             ELSE <<>>)

\* `${formatCoord(p.x)} ${formatCoord(p.y)}` of the transformed point
FormatPoint(conv, point, transform) ==
  <<FormatCoord(conv, TransformPoint(conv, point, transform).x),
    FormatCoord(conv, TransformPoint(conv, point, transform).y)>>

\* convertLine(segment, transform)
ConvertLine(conv, segment, transform) ==
  Spaced(<<W("L")>> \o FormatPoint(conv, segment.point, transform))

\* convertCubic(segment, transform)
ConvertCubic(conv, segment, transform) ==
  Spaced(<<W("C")>> \o FormatPoint(conv, segment.cp1[1], transform)
                    \o FormatPoint(conv, segment.cp2[1], transform)
                    \o FormatPoint(conv, segment.point, transform))

\* convertQuadratic(segment, transform)
ConvertQuadratic(conv, segment, transform) ==
  Spaced(<<W("Q")>> \o FormatPoint(conv, segment.cp[1], transform)
                    \o FormatPoint(conv, segment.point, transform))

\* convertSegment(segment, transform): the command, or null
ConvertSegment(conv, segment, transform) ==
  CASE segment.type = "line" -> <<ConvertLine(conv, segment, transform)>>
    [] segment.type = "cubic" -> <<ConvertCubic(conv, segment, transform)>>
    [] segment.type = "quadratic" -> <<ConvertQuadratic(conv, segment, transform)>>
    [] OTHER -> <<>>

\* buildPathData: the parts pushed for the segments from the k-th on
RECURSIVE SegmentParts(_, _, _, _)
SegmentParts(conv, segments, transform, k) ==
  IF k > Len(segments) THEN <<>>
  ELSE ConvertSegment(conv, segments[k], transform)
         \o SegmentParts(conv, segments, transform, k + 1)

\* parts that end with Z whether the subpath is closed or not
SubpathPartsAlwaysClosed(conv, subpath, transform) ==
  <<Spaced(<<W("M")>> \o FormatPoint(conv, subpath.startPoint, transform))>>
    \o SegmentParts(conv, subpath.segments, transform, 1)
    \o <<W("Z")>>

\* buildPathData: the parts pushed for one subpath (every subpath of the
\* parser has a start point)
SubpathParts(conv, subpath, transform) ==
  <<Spaced(<<W("M")>> \o FormatPoint(conv, subpath.startPoint, transform))>>
    \o SegmentParts(conv, subpath.segments, transform, 1)
    \o (IF subpath.closed THEN <<W("Z")>> ELSE <<>>)

RECURSIVE PathParts(_, _, _, _)
PathParts(conv, subpaths, transform, k) ==
  IF k > Len(subpaths) THEN <<>>
  ELSE SubpathParts(conv, subpaths[k], transform)
         \o PathParts(conv, subpaths, transform, k + 1)

\* buildPathData(subpaths, transform): parts.join(' ')
BuildPathData(conv, subpaths, transform) ==
  Spaced(PathParts(conv, subpaths, transform, 1))

\* a string that is present and not empty
Truthy(s) == s # <<>> /\ s[1] # <<>>

\* buildStyle: the fill part; the parser records no fillOpacity
FillStyle(style, operation) ==
  IF operation \in {"fill", "fill-stroke"}
  THEN [fill |-> <<IF Truthy(style.fill) THEN style.fill[1] ELSE Black>>,
        fillRule |-> style.fillRule]
  ELSE [fill |-> <<W("none")>>, fillRule |-> <<>>]

\* a buildStyle that leaves the recorded stroke width as it is
StrokeStyleUnscaled(conv, style, operation) ==
  IF operation \in {"stroke", "fill-stroke"}
  THEN [stroke |-> <<IF Truthy(style.stroke) THEN style.stroke[1] ELSE Black>>,
        strokeWidth |-> style.strokeWidth,
        strokeLinecap |-> style.strokeLinecap,
        strokeLinejoin |-> style.strokeLinejoin,
        strokeDasharray |-> IF Truthy(style.strokeDasharray)
                            THEN style.strokeDasharray ELSE <<>>]
  ELSE [stroke |-> <<>>, strokeWidth |-> <<>>, strokeLinecap |-> <<>>,
        strokeLinejoin |-> <<>>, strokeDasharray |-> <<>>]

\* buildStyle: the stroke part
StrokeStyle(conv, style, operation) ==
  IF operation \in {"stroke", "fill-stroke"}
  THEN [stroke |-> <<IF Truthy(style.stroke) THEN style.stroke[1] ELSE Black>>,
        strokeWidth |-> IF style.strokeWidth # <<>>
                        THEN <<Times(style.strokeWidth[1],
                                     MathMin(conv.scaleX, conv.scaleY))>>
                        ELSE <<>>,
        strokeLinecap |-> style.strokeLinecap,
        strokeLinejoin |-> style.strokeLinejoin,
        strokeDasharray |-> IF Truthy(style.strokeDasharray)
                            THEN style.strokeDasharray ELSE <<>>]
  ELSE [stroke |-> <<>>, strokeWidth |-> <<>>, strokeLinecap |-> <<>>,
        strokeLinejoin |-> <<>>, strokeDasharray |-> <<>>]

\* buildStyle(style, operation): the attributes that are set
BuildStyle(conv, style, operation) ==
  FillStyle(style, operation) @@ StrokeStyle(conv, style, operation)

\* convertPath(path): the SVG path element data, or null
ConvertPath(conv, path) ==
  IF Len(path.subpaths) = 0 THEN <<>>
  ELSE <<[d |-> BuildPathData(conv, path.subpaths, <<path.transform>>),
          style |-> BuildStyle(conv, path.style, path.operation),
          operation |-> path.operation,
          originalPath |-> path]>>

\* a convertPaths that returns the elements last path first
RECURSIVE ConvertPathsReversed(_, _)
ConvertPathsReversed(conv, pathList) ==
  IF Len(pathList) = 0 THEN <<>>
  ELSE ConvertPathsReversed(conv, Tail(pathList)) \o ConvertPath(conv, pathList[1])

\* convertPaths(paths): map and filter
RECURSIVE ConvertPaths(_, _)
ConvertPaths(conv, pathList) ==
  IF Len(pathList) = 0 THEN <<>>
  ELSE ConvertPath(conv, pathList[1]) \o ConvertPaths(conv, Tail(pathList))

\* calculateBounds: the points looked at in a segment
SegmentPoints(segment) == <<segment.point>> \o segment.cp1 \o segment.cp2

RECURSIVE SubpathPoints(_, _)
SubpathPoints(subpath, k) ==
  IF k > Len(subpath.segments) THEN <<>>
  ELSE SegmentPoints(subpath.segments[k]) \o SubpathPoints(subpath, k + 1)

\* calculateBounds: the points looked at, in the order of the loops
RECURSIVE BoundedPoints(_, _, _)
BoundedPoints(pathList, j, k) ==
  IF j > Len(pathList) THEN <<>>
  ELSE IF k > Len(pathList[j].subpaths) THEN BoundedPoints(pathList, j + 1, 1)
  ELSE <<pathList[j].subpaths[k].startPoint>>
         \o SubpathPoints(pathList[j].subpaths[k], 1)
         \o BoundedPoints(pathList, j, k + 1)

\* Infinity
Infinity == 1000000000

\* calculateBounds: minX, minY, maxX, maxY after the points from the n-th on
RECURSIVE Extremes(_, _, _)
Extremes(points, n, acc) ==
  IF n > Len(points) THEN acc
  ELSE Extremes(points, n + 1,
                [minX |-> MathMin(acc.minX, points[n].x),
                 minY |-> MathMin(acc.minY, points[n].y),
                 maxX |-> MathMax(acc.maxX, points[n].x),
                 maxY |-> MathMax(acc.maxY, points[n].y)])

\* calculateBounds: the box of the extremes
BoxOf(e) ==
  [x |-> e.minX, y |-> e.minY,
   width |-> Minus(e.maxX, e.minX), height |-> Minus(e.maxY, e.minY)]

\* calculateBounds(paths)
CalculateBounds(pathList) ==
  BoxOf(Extremes(BoundedPoints(pathList, 1, 1), 1,
                 [minX |-> Infinity, minY |-> Infinity,
                  maxX |-> 0 - Infinity, maxY |-> 0 - Infinity]))

(***************************************************************************)
(* SpecConvert: a converter is constructed with every combination of the   *)
(* options below, and one of transformPoint, convertPaths and              *)
(* calculateBounds is called on it.  The paths are those the parser        *)
(* returns for one of four streams.                                        *)
(***************************************************************************)
ConverterOptions ==
  [ pdfWidth : {<<>>, <<306>>}, pdfHeight : {<<>>, <<396>>},
    svgWidth : {<<>>, <<612>>, <<1224>>}, svgHeight : {<<>>, <<792>>},
    cropBox : {<<>>, <<[x |-> 6, y |-> 12, width |-> 306, height |-> 396]>>},
    precision : {<<>>, <<0>>},
    flipY : {<<>>, <<TRUE>>, <<FALSE>>},
    applyTransform : {<<>>, <<FALSE>>} ]

\* a closed stroked line of width 2; a filled red rectangle; under a CTM, a
\* curve and a line in one subpath and a line in another, filled and stroked;
\* a stroked line and then a filled rectangle
PathStreams ==
  { <<W("2"), T_w, W("10"), W("20"), T_m, W("30"), W("40"), T_l, T_h, T_S>>,
    <<W("1"), W("0"), W("0"), T_rg, W("1"), W("2"), W("3"), W("4"), T_re, T_f>>,
    <<W("2"), W("0"), W("0"), W("1"), W("5"), W("7"), T_cm,
      W("10"), W("20"), T_m, W("1"), W("2"), W("3"), W("4"), W("5"), W("6"), T_c,
      W("30"), W("40"), T_l, W("50"), W("60"), T_m, W("70"), W("80"), T_l, T_B>>,
    <<W("10"), W("20"), T_m, W("30"), W("40"), T_l, T_S,
      W("1"), W("2"), W("3"), W("4"), T_re, T_f>> }

\* no matrix, or a quarter turn followed by a shift
PointTransforms == {<<>>, <<[a |-> 0, b |-> 1, c |-> -1, d |-> 0, e |-> 5, f |-> 7]>>}

ConvertScenarios ==
  [ kind : {"convert"}, options : ConverterOptions, stream : PathStreams,
    point : {Point(10, 20)}, transform : PointTransforms ]

InitConvert ==
  /\ scenario \in ConvertScenarios
  /\ InitParserAs(ProcessTokens(NewParser, scenario.stream))
  /\ InitHistory
  /\ content = <<>>
  /\ tokens = <<>>
  /\ i = 0
  /\ operandStack = <<>>
  /\ pc = "new"
  /\ dispatched = 0

\* everything but pc, result and converter (the locals of the processor stay)
parsedFrame ==
  <<parserVars, content, tokens, i, operandStack, dispatched,
    savedAt, lastRestore, cmLog, openedAt, discarded, pathLog, scenario,
    extractVars>>

\* new SVGPathConverter(options)
ConstructConverter ==
  /\ pc = "new"
  /\ converter' = <<NewConverter(scenario.options)>>
  /\ pc' = "constructed"
  /\ UNCHANGED <<parsedFrame, result>>

\* converter.transformPoint(point, transform)
CallTransformPoint ==
  /\ pc = "constructed"
  /\ result' = <<[call |-> "transformPoint",
                  value |-> TransformPoint(converter[1], scenario.point,
                                           scenario.transform)]>>
  /\ pc' = "returned"
  /\ UNCHANGED callFrame

\* converter.convertPaths(paths) on the paths of the parser
CallConvertPaths ==
  /\ pc = "constructed"
  /\ result' = <<[call |-> "convertPaths", value |-> ConvertPaths(converter[1], paths)]>>
  /\ pc' = "returned"
  /\ UNCHANGED callFrame

\* converter.calculateBounds(paths) on the paths of the parser
CallCalculateBounds ==
  /\ pc = "constructed"
  /\ result' = <<[call |-> "calculateBounds", value |-> CalculateBounds(paths)]>>
  /\ pc' = "returned"
  /\ UNCHANGED callFrame

\* the largest number of calls of convertPaths on one converter
MaxCalls == 2

\* converter.convertPaths(paths) once more, on the same converter and paths
CallConvertPathsAgain ==
  /\ pc = "returned"
  /\ result[1].call = "convertPaths"
  /\ Len(result) < MaxCalls
  /\ result' = Append(result, [call |-> "convertPaths",
                                value |-> ConvertPaths(converter[1], paths)])
  /\ pc' = "returned"
  /\ UNCHANGED callFrame

NextConvert ==
  \/ ConstructConverter
  \/ CallTransformPoint
  \/ CallConvertPaths
  \/ CallCalculateBounds
  \/ CallConvertPathsAgain

SpecConvert == InitConvert /\ [][NextConvert]_vars

(***************************************************************************)
(* SpecDecode: the loop of decodeWithCMap applied on its own, to every     *)
(* text over two bytes up to a length and every CMap that maps some of the *)
(* 1-byte and 2-byte codes of those bytes, each code to a character of its *)
(* own.                                                                    *)
(***************************************************************************)
\* the largest length of a decoded text
MaxTextLen == 4

TextsUpTo(n) == UNION { [1..k -> {"A", "B"}] : k \in 0..n }

\* the codes of A, B, AA, AB, BA and BB, each with the unit it maps to
UnitOfCode ==
  (65 :> 97) @@ (66 :> 98) @@ (16705 :> 72) @@ (16706 :> 99)
    @@ (16961 :> 105) @@ (16962 :> 67)

DecodeScenarios ==
  { [kind |-> "decode", text |-> text, cmap |-> [code \in codes |-> UnitOfCode[code]]] :
      text \in TextsUpTo(MaxTextLen), codes \in (SUBSET DOMAIN UnitOfCode) \ {{}} }


InitDecode ==
  /\ InitParser
  /\ InitHistory
  /\ scenario \in DecodeScenarios
  /\ content = <<>>
  /\ tokens = <<>>
  /\ i = 0
  /\ operandStack = <<>>
  /\ pc = "call"
  /\ dispatched = 0

\* the loop of decodeWithCMap runs on the text and the CMap
DecodeText ==
  /\ pc = "call"
  /\ result' = <<DecodeChars(scenario.text, scenario.cmap, 1)>>
  /\ pc' = "returned"
  /\ UNCHANGED callFrame

SpecDecode == InitDecode /\ [][DecodeText]_vars

(***************************************************************************)
(* SpecCMap: parseCMap applied on its own to a CMap with an optional       *)
(* bfchar section of one pair and a bfrange section of one or two triples  *)
(* and, at its end, zero, one or two entries of an incomplete triple.  The *)
(* scenario holds the codes as numbers; the CMap holds them as hex words.  *)
(***************************************************************************)
\* <hhhh>: the code in at least four hex digits
HexWord(n) ==
  LET digits == HexOfNat(n)
      zeros == [k \in 1..(IF Len(digits) >= 4 THEN 0 ELSE 4 - Len(digits)) |-> "0"]
  IN  <<"<">> \o zeros \o digits \o <<">">>

RECURSIVE HexWords(_)
HexWords(codes) ==
  IF Len(codes) = 0 THEN <<>> ELSE <<HexWord(Head(codes))>> \o HexWords(Tail(codes))


\* n begin <entries> end, or nothing when there is no entry
CMapSection(begin, entries, end) ==
  IF Len(entries) = 0 THEN <<>>
  ELSE <<Decimal(Len(entries)), W(begin)>> \o HexWords(entries) \o <<W(end)>>

CMapWords(sc) ==
  <<W("begincmap")>>
    \o CMapSection("beginbfchar", Flatten(sc.chars), "endbfchar")
    \o CMapSection("beginbfrange", Flatten(sc.ranges) \o sc.trailing, "endbfrange")
    \o <<W("endcmap")>>

\* the first triple of a scenario: from A or B, to A or C, onto a.., A..,
\* U+1F600.. or U+FFFF..
FirstTriples == { <<start, end, dst>> : start \in {65, 66}, end \in {65, 67},
                                        dst \in {97, 65, 128512, 65535} }

CMapScenarios ==
  { [kind |-> "cmap", chars |-> chars, ranges |-> <<first>> \o more, trailing |-> trailing] :
      chars \in {<<>>, <<<<67, 72>>>>, <<<<65, 72>>>>},
      first \in FirstTriples,
      more \in {<<>>, <<<<67, 68, 98>>>>, <<<<66, 66, 72>>>>},
      trailing \in {<<>>, <<69>>, <<69, 70>>} }

InitCMap ==
  /\ InitParser
  /\ InitHistory
  /\ scenario \in CMapScenarios
  /\ content = <<>>
  /\ tokens = <<>>
  /\ i = 0
  /\ operandStack = <<>>
  /\ pc = "call"
  /\ dispatched = 0

\* parseCMap runs on the words of the CMap
ParseCMapString ==
  /\ pc = "call"
  /\ result' = ParseCMap(CMapWords(scenario))
  /\ pc' = "returned"
  /\ UNCHANGED callFrame

SpecCMap == InitCMap /\ [][ParseCMapString]_vars

(***************************************************************************)
(* SpecFonts: the dispatch loop of a parser made with a font dictionary    *)
(* and a document context, on arbitrary streams of text and rectangle      *)
(* operators.  Font F1 has a ToUnicode CMap that maps A, B, C to a, b, c;  *)
(* font F2 has none, for the reason the scenario names; font F3 is not in  *)
(* the dictionary.                                                         *)
(***************************************************************************)
\* the largest number of operators of a stream
MaxFontOps == 5

FontOutcomes == {"throws", "unresolved", "noToUnicode", "notInflating", "noSection"}

GoodCMapWords ==
  CMapWords([chars |-> <<>>, ranges |-> <<<<65, 67, 97>>>>, trailing |-> <<>>])

FontDictionary(outcome) ==
  (W("F1") :> FontEntry("stream", TRUE, GoodCMapWords))
    @@ (W("F2") :>
          CASE outcome = "notInflating" -> FontEntry("stream", FALSE, GoodCMapWords)
            [] outcome = "noSection" ->
                 FontEntry("stream", TRUE, <<W("begincmap"), W("endcmap")>>)
            [] outcome \in {"throws", "unresolved", "noToUnicode"} ->
                 FontEntry(outcome, TRUE, <<>>))

FontOperandLists ==
  { <<W("/F1"), W("10")>>, <<W("/F2"), W("10")>>, <<W("/F3"), W("10")>>,
    <<W("(AB)")>>, <<W("10"), W("20"), W("30"), W("40")>> }

InitFonts ==
  /\ scenario \in [kind : {"fonts"}, outcome : FontOutcomes]
  /\ InitParserAs(NewParserWith(<<FontDictionary(scenario.outcome)>>, TRUE))
  /\ InitHistory
  /\ content = <<>>
  /\ tokens = <<>>
  /\ i = 0
  /\ operandStack = <<>>
  /\ pc = "dispatch"
  /\ dispatched = 0

\* the stream supplies the next operand of a font, string or rectangle
PushFontOperand ==
  /\ dispatched < MaxFontOps
  /\ \E tok \in TokensOf(FontOperandLists) :
       /\ Append(operandStack, tok) \in Prefixes(FontOperandLists)
       /\ Feed(tok)

\* a text object opens, a font is selected or a string is shown
SelectFontOrShowText ==
  /\ dispatched < MaxFontOps
  /\ \E tok \in {T_BT, T_Tf, T_Tj} : Feed(tok)

\* a rectangle is added or the open path is filled
BuildOrFillRectangle ==
  /\ dispatched < MaxFontOps
  /\ \E tok \in {T_re, T_f} : Feed(tok)

NextFonts ==
  \/ PushFontOperand
  \/ SelectFontOrShowText
  \/ BuildOrFillRectangle

SpecFonts == InitFonts /\ [][NextFonts]_vars

(***************************************************************************)
(* Properties.                                                             *)
(***************************************************************************)

\* C1 (SpecGS): the saved-state stack holds, oldest first, the value the
\* graphics state had at each `q` not yet matched, whatever w/J/j/d/cm/colour
\* operators ran since; and right after a `Q` that matches a `q` the
\* graphics state (colours, line width, cap, join, dash array and the six
\* CTM coefficients) equals its value just before that `q`.
C1_RestoreGivesStateAtMatchingSave ==
  /\ stateStack = savedAt
  /\ lastRestore # <<>> => graphicsState = lastRestore[1].expected

\* a `Q` has just undone a change of the CTM and a change of the line width
\* made since its `q`
C1_Witness ==
  /\ lastRestore # <<>>
  /\ lastRestore[1].discarded.ctm # lastRestore[1].expected.ctm
  /\ lastRestore[1].discarded.lineWidth # lastRestore[1].expected.lineWidth
  /\ graphicsState = lastRestore[1].expected

\* the 3x3 matrix of a 2x3 affine matrix under the row-vector convention
Mat3(m) == << <<m.a, m.b, 0>>, <<m.c, m.d, 0>>, <<m.e, m.f, 1>> >>

Mul3(x, y) ==
  [r \in 1..3 |-> [c \in 1..3 |->
     x[r][1] * y[1][c] + x[r][2] * y[2][c] + x[r][3] * y[3][c]]]

Identity3 == << <<1, 0, 0>>, <<0, 1, 0>>, <<0, 0, 1>> >>

\* M1 * (M2 * (... * Mn)), the matrices taken in order
RECURSIVE Product3(_)
Product3(ms) ==
  IF Len(ms) = 0 THEN Identity3
  ELSE Mul3(Mat3(ms[1]), Product3(Tail(ms)))

\* C2 (SpecGS): while the stream has dispatched nothing but `cm` operators
\* with six numeric operands, the live CTM is the product M1*M2*...*Mn of
\* their operand matrices in operator order (row-vector convention).
C2_CtmIsProductOfOperands ==
  cmLog.valid => Mat3(graphicsState.ctm) = Product3(cmLog.ms)

\* three `cm` have run and the first two operand matrices do not commute
C2_Witness ==
  /\ cmLog.valid
  /\ Len(cmLog.ms) = 3
  /\ Mul3(Mat3(cmLog.ms[1]), Mat3(cmLog.ms[2])) # Mul3(Mat3(cmLog.ms[2]), Mat3(cmLog.ms[1]))
  /\ Mat3(graphicsState.ctm) = Product3(cmLog.ms)

StrokingOperators == {T_S, T_s, T_B, T_BStar, T_b, T_bStar}

FillingOperators == {T_f, T_F, T_fStar, T_B, T_BStar, T_b, T_bStar}

EvenOddOperators == {T_fStar, T_BStar, T_bStar}

\* C3 (Spec): every recorded path carries, in each style field its painting
\* operator writes, the value the live graphics state had when that operator
\* executed: stroke, strokeWidth, strokeLinecap and strokeLinejoin for a
\* stroking operator, fill for a filling operator (with the fill rule of the
\* operator), whatever the state was when the path was constructed.
C3_StyleIsStateAtPaint ==
  /\ Len(pathLog) = Len(paths)
  /\ \A k \in 1..Len(paths) :
       LET style == paths[k].style
           gs == pathLog[k].atPaint
       IN  /\ pathLog[k].op \in StrokingOperators =>
                /\ style.stroke = <<gs.strokeColor>>
                /\ style.strokeWidth = <<gs.lineWidth>>
                /\ style.strokeLinecap = <<gs.lineCap>>
                /\ style.strokeLinejoin = <<gs.lineJoin>>
           /\ pathLog[k].op \in FillingOperators =>
                /\ style.fill = <<gs.fillColor>>
                /\ style.fillRule =
                     <<IF pathLog[k].op \in EvenOddOperators THEN "evenodd" ELSE "nonzero">>

\* a path was stroked after the stroke colour changed between its creation
\* and its painting operator, and it carries the later colour
C3_Witness ==
  \E k \in 1..Len(paths) :
    /\ pathLog[k].op = T_S
    /\ pathLog[k].atOpen # <<>>
    /\ pathLog[k].atOpen[1].strokeColor # pathLog[k].atPaint.strokeColor
    /\ paths[k].style.stroke = <<pathLog[k].atPaint.strokeColor>>

\* C4 as stated (SpecPath): the transform of every recorded path is the CTM
\* that was live when its painting operator executed.
C4_TransformIsCtmAtPaint ==
  \A k \in 1..Len(paths) : paths[k].transform = pathLog[k].atPaint.ctm

\* C4 amended (SpecPath): the transform of a path, open or recorded, is the
\* CTM that was live when the path was created by its first `m` or `re`; a
\* `cm` or `Q` executed after that does not change it.
C4_TransformIsCtmAtCreation ==
  /\ Len(pathLog) = Len(paths)
  /\ \A k \in 1..Len(paths) :
       /\ pathLog[k].atOpen # <<>>
       /\ paths[k].transform = pathLog[k].atOpen[1].ctm
  /\ currentPath # <<>> =>
       /\ openedAt # <<>>
       /\ currentPath[1].transform = openedAt[1].ctm

\* a path was recorded after the CTM changed between its creation and its
\* painting operator, and it carries the CTM of its creation
C4_Witness ==
  \E k \in 1..Len(paths) :
    /\ pathLog[k].atOpen # <<>>
    /\ pathLog[k].atOpen[1].ctm # pathLog[k].atPaint.ctm
    /\ paths[k].transform = pathLog[k].atOpen[1].ctm

\* C5 (Spec): a step of the loop that dispatches an operator, recognized or
\* not, leaves the operand stack empty.
C5_StackEmptyAfterDispatch ==
  [][dispatched' # dispatched => operandStack' = <<>>]_vars

\* `d` was dispatched with six operands on the stack, which it stored, and
\* the stack is empty
C5_Witness ==
  /\ dispatched = 1
  /\ graphicsState.dashArray =
       Join(<<<<"2">>, <<"0">>, <<"1">>, <<"2">>, <<"1">>, <<"0">>>>)
  /\ operandStack = <<>>

IsPrefix(s, t) == Len(s) <= Len(t) /\ SubSeq(t, 1, Len(s)) = s

\* C6 (SpecPath): across every step of the loop the path list and the
\* text-run list before are prefixes, by value, of the lists after; the path
\* list grows by at most one record, and only in a step of a painting
\* operator.
C6_OutputIsAppendOnly ==
  [][ /\ IsPrefix(paths, paths')
      /\ IsPrefix(textObjects, textObjects')
      /\ Len(paths') <= Len(paths) + 1
      /\ Len(paths') > Len(paths) =>
           \E tok \in PathPaintingOperators \ {T_n} : Feed(tok) ]_vars

\* two paths were recorded with a `cm` between them: the first still has
\* the transform it was recorded with
C6_Witness ==
  /\ Len(paths) = 2
  /\ paths[1].transform # paths[2].transform
  /\ paths[1].transform = pathLog[1].atOpen[1].ctm
  /\ graphicsState.ctm # paths[1].transform

\* the path `x0 y0 m  x1 y1 l ... xk yk l  h S` is to yield
PolygonPath(sc) ==
  [ subpaths |->
      << [ segments |-> [ k \in 1..(Len(sc.pts) - 1) |->
                            [type |-> "line", cp1 |-> <<>>, cp2 |-> <<>>,
                             point |-> [x |-> sc.pts[k + 1][1], y |-> sc.pts[k + 1][2]]] ],
           closed |-> TRUE,
           startPoint |-> [x |-> sc.pts[1][1], y |-> sc.pts[1][2]] ] >>,
    stroke |-> IF sc.rg THEN <<"#", "f", "f", "0", "0", "0", "0">>
               ELSE <<"#", "0", "0", "0", "0", "0", "0">> ]

\* C7 (SpecParse): parsing `[1 0 0 RG] x0 y0 m` followed by k `l` operators
\* and `h S` returns exactly one path, of operation stroke, whose stroke
\* colour is #ff0000 after `1 0 0 RG`, and whose one subpath is closed,
\* starts at (x0,y0) and has exactly the k operand points as Line endpoints,
\* in order.
C7_PolygonYieldsOneClosedStrokePath ==
  (pc = "done" /\ scenario.kind = "polygon") =>
    /\ Len(paths) = 1
    /\ paths[1].operation = "stroke"
    /\ paths[1].style.stroke = <<PolygonPath(scenario).stroke>>
    /\ paths[1].subpaths = PolygonPath(scenario).subpaths
    /\ currentPath = <<>>

\* `1 0 0 RG 10 10 m 50 10 l 50 50 l 10 50 l h S` was parsed to the end
C7_Witness ==
  /\ pc = "done"
  /\ content = Spaced(<< <<"1">>, <<"0">>, <<"0">>, <<"R", "G">>,
                         <<"1", "0">>, <<"1", "0">>, <<"m">>,
                         <<"5", "0">>, <<"1", "0">>, <<"l">>,
                         <<"5", "0">>, <<"5", "0">>, <<"l">>,
                         <<"1", "0">>, <<"5", "0">>, <<"l">>,
                         <<"h">>, <<"S">> >>)
  /\ Len(paths) = 1
  /\ paths[1].style.stroke = << <<"#", "f", "f", "0", "0", "0", "0">> >>
  /\ Len(paths[1].subpaths) = 1
  /\ paths[1].subpaths[1].closed
  /\ paths[1].subpaths[1].startPoint = [x |-> 10, y |-> 10]
  /\ Len(paths[1].subpaths[1].segments) = 3

\* the closed subpath `x y w h re` is to append
RectangleSubpath(x, y, w, h) ==
  [ segments |->
      << [type |-> "line", cp1 |-> <<>>, cp2 |-> <<>>, point |-> [x |-> x + w, y |-> y]],
         [type |-> "line", cp1 |-> <<>>, cp2 |-> <<>>, point |-> [x |-> x + w, y |-> y + h]],
         [type |-> "line", cp1 |-> <<>>, cp2 |-> <<>>, point |-> [x |-> x, y |-> y + h]] >>,
    closed |-> TRUE,
    startPoint |-> [x |-> x, y |-> y] ]

\* C8 (Spec): a step of `re` with operands x y w h leaves a current path
\* whose subpaths are those it had before (none when no path was open)
\* followed by one closed subpath starting at (x,y) with the three Line
\* segments to (x+w,y), (x+w,y+h), (x,y+h), and whose current point is
\* (x,y); the output list is not touched.
C8_RectangleAppendsClosedSubpath ==
  [][ (Len(operandStack) >= 4 /\ Feed(T_re)) =>
        LET x == ParseFloat(operandStack[1])
            y == ParseFloat(operandStack[2])
            w == ParseFloat(operandStack[3])
            h == ParseFloat(operandStack[4])
            before == IF currentPath = <<>> THEN <<>> ELSE currentPath[1].subpaths
        IN  /\ currentPath' # <<>>
            /\ currentPath'[1].subpaths = Append(before, RectangleSubpath(x, y, w, h))
            /\ currentPath'[1].currentPoint = <<[x |-> x, y |-> y]>>
            /\ paths' = paths ]_vars

\* `3 1 -2 -1 re` ran on a path that had one subpath already
C8_Witness ==
  /\ currentPath # <<>>
  /\ Len(currentPath[1].subpaths) = 2
  /\ currentPath[1].subpaths[2] = RectangleSubpath(3, 1, -2, -1)
  /\ currentPath[1].subpaths[2].segments[2].point = [x |-> 1, y |-> 0]
  /\ currentPath[1].currentPoint = <<[x |-> 3, y |-> 1]>>

\* C9 (SpecPath): a step of `n` leaves the output lists as they were and no
\* path open; a path created when none is open has only the subpath of the
\* operator that created it, so nothing discarded comes back; and a step
\* taken with no path open appends nothing to the path list.
C9_EndPathDiscards ==
  [][ /\ Feed(T_n) =>
           /\ paths' = paths
           /\ textObjects' = textObjects
           /\ currentPath' = <<>>
      /\ (currentPath = <<>> /\ currentPath' # <<>>) =>
           Len(currentPath'[1].subpaths) = 1
      /\ currentPath = <<>> => paths' = paths ]_vars

\* a path was recorded after an earlier one had been discarded, and the
\* output has the recorded one only, with the one subpath built after `n`
C9_Witness ==
  /\ Len(paths) = 1
  /\ pathLog[1].discards = 1
  /\ Len(paths[1].subpaths) = 1

\* C10 as stated (SpecParse): at the end of the parse of an open path
\* followed by one painting operator, a path painted with `f*`, `B*` or
\* `b*` is recorded with fillRule evenodd and a path painted with `f`, `F`,
\* `B` or `b` with fillRule nonzero.
C10_FillRuleOfOperator ==
  (pc = "done" /\ scenario.kind = "paint" /\ scenario.op \in FillingOperators) =>
    /\ Len(paths) = 1
    /\ paths[1].style.fillRule =
         <<IF scenario.op \in EvenOddOperators THEN "evenodd" ELSE "nonzero">>

\* the text run the first Tj of a buffer of SpecTextParse is to append
FirstRun(sc) ==
  [ text |-> sc.str, x |-> sc.x, y |-> sc.y,
    font |-> <<IF sc.tf2 THEN <<"/", "F", "2">> ELSE <<"/", "F", "1">>>>,
    fontSize |-> IF sc.tf2 THEN 5 ELSE sc.size,
    fillColor |-> IF sc.rg THEN <<"#", "f", "f", "0", "0", "0", "0">>
                  ELSE <<"#", "0", "0", "0", "0", "0", "0">>,
    ctm |-> IF sc.cm THEN [a |-> 2, b |-> 0, c |-> 0, d |-> 2, e |-> 5, f |-> 10]
            ELSE [a |-> 1, b |-> 0, c |-> 0, d |-> 1, e |-> 0, f |-> 0] ]

\* C11 (SpecTextParse): parsing `BT /F1 size Tf x y Td (str) Tj ET`, with or
\* without a later Tf, an `rg` and a `cm` before the Tj, and with no font
\* dictionary, returns exactly one text run: its text is str, its font name
\* and size are those of the most recent Tf, its fill colour and ctm are the
\* live ones, and its position is the translation (x,y) of the text matrix.
C11_TjAppendsOneTextRun ==
  (pc = "done" /\ scenario.tail = "none") => textObjects = <<FirstRun(scenario)>>

\* `BT /F1 12 Tf 100 700 Td (Hi) Tj ET` was parsed to the end
C11_Witness ==
  /\ pc = "done"
  /\ content = Spaced(<<W("BT"), W("/F1"), W("12"), W("Tf"), W("100"), W("700"),
                        W("Td"), W("(Hi)"), W("Tj"), W("ET")>>)
  /\ Len(textObjects) = 1
  /\ textObjects[1].text = <<"H", "i">>
  /\ textObjects[1].font = <<<<"/", "F", "1">>>>
  /\ textObjects[1].fontSize = 12
  /\ textObjects[1].x = 100
  /\ textObjects[1].y = 700

\* C12 as stated (SpecTextParse): at the end of the parse of a buffer with
\* `[ (s1) 5 (s2) ... (sk) ] TJ` inside the text object, exactly k text runs
\* were appended after the one of the Tj before it, one per string of the
\* array in array order, each at the text-matrix translation in force.
C12_TJAppendsOneRunPerString ==
  (pc = "done" /\ scenario.tail = "TJ") =>
    /\ Len(textObjects) = 1 + scenario.k
    /\ \A n \in 1..scenario.k :
         /\ n + 1 <= Len(textObjects)
         /\ textObjects[n + 1] =
              [FirstRun(scenario) EXCEPT
                 !.text = SubSeq(ArrayStrings[n], 2, Len(ArrayStrings[n]) - 1)]

\* C13 as stated (SpecTextParse): at the end of the parse of a buffer with
\* `(str) Tj T* (B) Tj` inside the text object, the second text run is at
\* the x of the first and 1.2 times the font size lower.
C13_TStarAdvancesOneLine ==
  (pc = "done" /\ scenario.tail = "TStar") =>
    /\ Len(textObjects) = 2
    /\ textObjects[2].x = textObjects[1].x
    /\ 10 * textObjects[2].y = 10 * textObjects[1].y - 12 * textObjects[1].fontSize

\* C14 as stated (SpecTextParse): at the end of the parse of a buffer with
\* `(str) Tj 5 10 (B) " (C) Tj` inside the text object, the `"` appended one
\* text run for (B), 1.2 times the font size lower than the run before it,
\* and the Tj after it, which found only (C) on the operand stack, one for
\* (C).
C14_DoubleQuoteIsDispatched ==
  (pc = "done" /\ scenario.tail = "DoubleQuote") =>
    /\ Len(textObjects) = 3
    /\ textObjects[2].text = <<"B">>
    /\ 10 * textObjects[2].y = 10 * textObjects[1].y - 12 * textObjects[1].fontSize
    /\ textObjects[3].text = <<"C">>

\* C15 as stated (SpecTextParse): at the end of the parse of a buffer whose
\* text object is closed by ET and followed by `(B) '`, the `'` has
\* appended no text run and the text matrix and the text-line matrix are
\* those the Td left.
C15_ShowingOutsideTextObjectIsNoOp ==
  (pc = "done" /\ scenario.tail = "QuoteAfterET") =>
    /\ textObjects = <<FirstRun(scenario)>>
    /\ textMatrix = <<1, 0, 0, 1, scenario.x, scenario.y>>
    /\ textLineMatrix = <<1, 0, 0, 1, scenario.x, scenario.y>>

\* the number of operands the operators of the path, graphics state and
\* colour tables take
OperandCount(tok) ==
  CASE tok \in {T_m, T_l} -> 2
    [] tok = T_c -> 6
    [] tok \in {T_v, T_y, T_re} -> 4
    [] tok \in {T_w, T_J, T_j} -> 1
    [] tok = T_d -> 2
    [] tok = T_cm -> 6
    [] tok \in {T_g, T_G} -> 1
    [] tok \in {T_rg, T_RG} -> 3
    [] tok \in {T_k, T_K} -> 4
    [] OTHER -> 0

\* C20 as stated (Spec): a step that dispatches an operator with fewer
\* operands on the stack than the operator takes changes nothing of the
\* interpreter: graphics state, state stack, current path, output lists,
\* text state and text matrices.
C20_TooFewOperandsChangesNothing ==
  [][ \A tok \in PathConstructionOperators \cup GraphicsStateOperators \cup ColorOperators :
        (Len(operandStack) < OperandCount(tok) /\ Feed(tok)) => UNCHANGED parserVars ]_vars

\* the ways to cut n bytes into codes of one or two bytes, each the sequence
\* of the lengths of its codes
RECURSIVE Cuts(_)
Cuts(n) ==
  IF n = 0 THEN {<<>>}
  ELSE { <<1>> \o c : c \in Cuts(n - 1) }
         \cup (IF n >= 2 THEN { <<2>> \o c : c \in Cuts(n - 2) } ELSE {})

\* the index of the first byte of code k of cut c
RECURSIVE StartOf(_, _)
StartOf(c, k) == IF k = 1 THEN 1 ELSE StartOf(c, k - 1) + c[k - 1]

\* C16 (SpecDecode): the decoded text is the input cut left to right into
\* codes, one output character per code and no byte outside a code: a code of
\* two bytes is a mapped big-endian 2-byte code and gives its mapping; a code
\* of one byte stands where the 2-byte code is unmapped (or no byte follows)
\* and gives the mapping of the 1-byte code if it is mapped, the byte itself
\* if it is not.
C16_DecodingIsGreedyAndDropsNothing ==
  pc = "returned" =>
    LET text == scenario.text
        cmap == scenario.cmap
        out == result[1]
        Two(s) == CharCodeAt(text[s]) * 256 + CharCodeAt(text[s + 1])
        One(s) == CharCodeAt(text[s])
    IN  \E c \in Cuts(Len(text)) :
          /\ Len(out) = Len(c)
          /\ \A k \in 1..Len(c) :
               LET s == StartOf(c, k)
               IN  IF c[k] = 2
                   THEN Two(s) \in DOMAIN cmap /\ CharCodeAt(out[k]) = cmap[Two(s)]
                   ELSE /\ s + 1 <= Len(text) => Two(s) \notin DOMAIN cmap
                        /\ IF One(s) \in DOMAIN cmap
                           THEN CharCodeAt(out[k]) = cmap[One(s)]
                           ELSE out[k] = text[s]

\* ABBA with AB and A mapped: the 2-byte code, then two bytes on their own,
\* the first copied and the second mapped
C16_Witness ==
  /\ pc = "returned"
  /\ scenario.text = <<"A", "B", "B", "A">>
  /\ DOMAIN scenario.cmap = {65, 16706}
  /\ result = <<<<"c", "B", "a">>>>

\* the codes a CMap maps: none when parseCMap returned null
MappedCodes(cmap) == IF cmap = <<>> THEN {} ELSE DOMAIN cmap[1]

\* C19 (SpecCMap): for every triple (start, end, dst) of the bfrange section
\* and every code c with start <= c <= end that no later triple covers, the
\* parsed CMap maps c to the one character whose code is dst + (c - start);
\* and it maps no code outside the triples and the bfchar pairs.
C19_RangeMapsToDstPlusOffset ==
  pc = "returned" =>
    LET ranges == scenario.ranges
        Covers(k, c) == ranges[k][1] <= c /\ c <= ranges[k][2]
    IN  /\ \A k \in 1..Len(ranges) : \A c \in ranges[k][1]..ranges[k][2] :
             (\A later \in (k + 1)..Len(ranges) : ~Covers(later, c)) =>
               /\ c \in MappedCodes(result)
               /\ result[1][c] = ranges[k][3] + (c - ranges[k][1])
        /\ \A c \in MappedCodes(result) :
             \/ \E k \in 1..Len(ranges) : Covers(k, c)
             \/ \E k \in 1..Len(scenario.chars) : scenario.chars[k][1] = c

\* C17 (SpecFonts): extractToUnicodeCMap has been called at most once for
\* each font name, whether the font has a CMap or not.
C17_CMapLookedUpAtMostOncePerFont ==
  \A fontName \in DOMAIN extractCalls : extractCalls[fontName] <= 1

\* the words of a CMap
WordsOf(cmapString) == { cmapString[k] : k \in 1..Len(cmapString) }

\* the font is missing from the dictionary, or its lookup throws or finds
\* nothing, or it has no ToUnicode entry, or its CMap does not inflate or
\* holds no section
NoCMapFor(fontName) ==
  LET name == IF StartsWith(fontName, "/") THEN Tail(fontName) ELSE fontName
      dict == fontDict[1]
  IN  \/ name \notin DOMAIN dict
      \/ dict[name].kind \in {"throws", "unresolved", "noToUnicode"}
      \/ dict[name].kind = "stream" /\ ~dict[name].inflates
      \/ dict[name].kind = "stream"
           /\ W("beginbfchar") \notin WordsOf(dict[name].cmapString)
           /\ W("beginbfrange") \notin WordsOf(dict[name].cmapString)

\* this step is the loop body on tok (the operand stack after it tells an
\* operand from an operator before the whole step is compared)
LoopBodyOn(tok) ==
  /\ operandStack' = IF IsOperatorToken(tok) THEN <<>> ELSE Append(operandStack, tok)
  /\ Feed(tok)

\* C18 (SpecFonts): while the current font has no usable CMap, a Tj with a
\* string operand inside a text object appends one text run whose text is
\* the unescaped body of the string, and every token leaves the paths, the
\* open path, the text runs, the text state and the graphics state as the
\* same token leaves them in a parser that has no font dictionary.
C18_NoCMapFallsBackToRawText ==
  [][ (currentFont # <<>> /\ NoCMapFor(currentFont[1])) =>
        \A tok \in TokensOf(FontOperandLists) \cup {T_BT, T_Tf, T_Tj, T_re, T_f} :
          LoopBodyOn(tok) =>
            LET plain == ProcessToken([Parser EXCEPT !.fontDict = <<>>],
                                      operandStack, tok).parser
            IN  /\ (tok = T_Tj /\ inTextObject
                      /\ Len(operandStack) >= 1
                      /\ StartsWith(operandStack[1], "(")) =>
                     /\ Len(textObjects') = Len(textObjects) + 1
                     /\ Last(textObjects').text =
                          Unescape(SubSeq(operandStack[1], 2, Len(operandStack[1]) - 1))
                     /\ Last(textObjects').font = currentFont
                /\ paths' = plain.paths
                /\ currentPath' = plain.currentPath
                /\ textObjects' = plain.textObjects
                /\ graphicsState' = plain.graphicsState
                /\ <<inTextObject', currentFont', currentFontSize'>>
                     = <<plain.inTextObject, plain.currentFont, plain.currentFontSize>>
                /\ <<textMatrix', textLineMatrix'>>
                     = <<plain.textMatrix, plain.textLineMatrix>> ]_vars

\* the lookup of F2 throws: AB shown in F2 is the run AB, and the rectangle
\* that follows is filled and recorded
C18_Witness ==
  /\ scenario.outcome = "throws"
  /\ Len(textObjects) = 1
  /\ textObjects[1].font = <<W("/F2")>>
  /\ textObjects[1].text = <<"A", "B">>
  /\ W("/F2") \in DOMAIN extractCalls
  /\ pathLog # <<>>
  /\ pathLog[1].discards = 0
  /\ Len(paths) = 1
  /\ dispatched = 5

\* x is a list
IsList(x) == DOMAIN x = 1..Len(x)

\* C21: whatever the tokens (unknown operators, operands that are no
\* numbers, Q or ET with nothing to match, path operators with no open
\* path), the loop takes the tokens one at a time from the first to the
\* last, each once, no operator raises, and parseContentStream returns the
\* lists paths and textObjects of the parser.
C21_EveryTokenConsumedAndNothingRaises ==
  [][ /\ pc' # "caught"
      /\ pc = "new" => tokens' = Flatten(scenario.phrases) /\ i' = 1
      /\ pc = "dispatch" /\ pc' = "dispatch" =>
            /\ i <= Len(tokens) /\ i' = i + 1 /\ tokens' = tokens
            /\ operandStack' = IF IsOperatorToken(tokens[i]) THEN <<>>
                                ELSE Append(operandStack, tokens[i])
            /\ dispatched' = dispatched + (IF IsOperatorToken(tokens[i]) THEN 1 ELSE 0)
      /\ pc' = "done" =>
            /\ i' = Len(tokens') + 1
            /\ Len(result') = 1
            /\ result'[1].paths = paths' /\ IsList(result'[1].paths)
            /\ result'[1].textObjects = textObjects' /\ IsList(result'[1].textObjects)
    ]_vars

\* a rectangle, a v curve on its path, a stroke: the parse has returned
C21_Witness ==
  /\ pc = "done"
  /\ scenario.kind = "malformed"
  /\ scenario.phrases = << <<W("1"), W("2"), W("3"), W("4"), T_re>>,
                           <<W("1"), W("2"), W("3"), W("4"), T_v>>, <<T_S>> >>
  /\ Len(result) = 1 /\ Len(result[1].paths) = 1
  /\ Len(result[1].paths[1].subpaths[1].segments) = 4
\* the phrases of a stream but the unknown operator zz
RECURSIVE WithoutUnknown(_)
WithoutUnknown(phrases) ==
  IF Len(phrases) = 0 THEN <<>>
  ELSE (IF phrases[1] = <<T_zz>> THEN <<>> ELSE <<phrases[1]>>)
         \o WithoutUnknown(Tail(phrases))

\* C22: an unknown operator made of letters, with no operands of its own,
\* put between two complete operator invocations changes nothing: the paths,
\* the text runs, the graphics state and the text state at the end of the
\* parse are those of the stream without it.
C22_UnknownOperatorChangesNothing ==
  (pc = "done" /\ scenario.kind = "malformed") =>
    Parser = ProcessTokens(NewParser, Flatten(WithoutUnknown(scenario.phrases)))

\* zz between a rectangle and its stroke: the rectangle is stroked
C22_Witness ==
  /\ pc = "done"
  /\ scenario.kind = "malformed"
  /\ scenario.phrases = << <<W("1"), W("2"), W("3"), W("4"), T_re>>, <<T_zz>>, <<T_S>> >>
  /\ Len(paths) = 1
  /\ Parser = ProcessTokens(NewParser, <<W("1"), W("2"), W("3"), W("4"), T_re, T_S>>)
\* the number of q among the first k tokens less the number of Q among them
\* met with a positive count
RECURSIVE SavedDepth(_, _)
SavedDepth(toks, k) ==
  IF k = 0 THEN 0
  ELSE LET d == SavedDepth(toks, k - 1)
       IN  IF toks[k] = T_q THEN d + 1
           ELSE IF toks[k] = T_Q /\ d > 0 THEN d - 1
           ELSE d

\* C23: Q with nothing saved changes neither the graphics state, nor the
\* stack, nor the current path, nor the two output lists, and raises
\* nothing; the depth of the stack is the number of q executed less the
\* number of Q executed on a non-empty stack.
C23_RestoreOnEmptyStackIsNoOp ==
  [][ (pc = "dispatch" /\ pc' # "done") =>
        /\ Len(stateStack') = SavedDepth(tokens, i)
        /\ (tokens[i] = T_Q /\ stateStack = <<>>) =>
              /\ UNCHANGED <<graphicsState, stateStack, currentPath, paths, textObjects>>
              /\ pc' = "dispatch"
    ]_vars

\* a line width, then Q with nothing saved, then a rectangle: the width is
\* kept and the rectangle is under construction
C23_Witness ==
  /\ pc = "done"
  /\ scenario.kind = "malformed"
  /\ scenario.phrases = << <<W("2"), T_w>>, <<T_Q>>, <<W("1"), W("2"), W("3"), W("4"), T_re>> >>
  /\ graphicsState.lineWidth = 2
  /\ stateStack = <<>>
  /\ currentPath # <<>>
\* # and six hexadecimal digits
IsHexColour(c) ==
  /\ Len(c) = 7
  /\ c[1] = "#"
  /\ \A k \in 2..7 : c[k] \in HexDigits

\* C24: in every reachable state the fill colour and the stroke colour are
\* a # followed by exactly six hexadecimal digits, whatever numbers g, G,
\* rg, RG, k and K are given.
C24_ColoursAreSixHexDigits ==
  IsHexColour(graphicsState.fillColor) /\ IsHexColour(graphicsState.strokeColor)
\* the two hexadecimal digits of a channel value in 0..255
TwoHexDigits(n) == <<HexChar(n \div 16), HexChar(n % 16)>>

\* the value of an operand that is 0 or 1
BitOf(tok) == IF tok = W("1") THEN 1 ELSE 0

\* # and the encoding of round(255 (1-C)(1-K)), round(255 (1-M)(1-K)),
\* round(255 (1-Y)(1-K)) for the operands C M Y K
ExpectedCMYK(ops) ==
  <<"#">> \o TwoHexDigits(255 * (1 - BitOf(ops[1])) * (1 - BitOf(ops[4])))
         \o TwoHexDigits(255 * (1 - BitOf(ops[2])) * (1 - BitOf(ops[4])))
         \o TwoHexDigits(255 * (1 - BitOf(ops[3])) * (1 - BitOf(ops[4])))

\* C25: k and K with the operands C M Y K set the colour to the hex
\* encoding of round(255 (1-C)(1-K)), round(255 (1-M)(1-K)),
\* round(255 (1-Y)(1-K)): 0 0 0 0 gives #ffffff and 0 0 0 1 gives #000000;
\* k changes the fill colour and nothing else, K the stroke colour and
\* nothing else.
C25_CMYKSetsOneColourFromComponents ==
  [][ \A tok \in {T_k, T_K} :
        (Len(operandStack) = 4 /\ LoopBodyOn(tok)) =>
          /\ graphicsState' =
                IF tok = T_k
                THEN [graphicsState EXCEPT !.fillColor = ExpectedCMYK(operandStack)]
                ELSE [graphicsState EXCEPT !.strokeColor = ExpectedCMYK(operandStack)]
          /\ operandStack = <<W("0"), W("0"), W("0"), W("0")>> =>
                ExpectedCMYK(operandStack) = W("#ffffff")
          /\ operandStack = <<W("0"), W("0"), W("0"), W("1")>> =>
                ExpectedCMYK(operandStack) = W("#000000")
    ]_vars

\* after 0 0 1 0 k and 0 0 0 0 K: a yellow fill and a white stroke
C25_Witness ==
  /\ graphicsState.fillColor = W("#ffff00")
  /\ graphicsState.strokeColor = W("#ffffff")
  /\ dispatched = 2
\* a call of the converter has returned
Returned(call) == pc = "returned" /\ scenario.kind = "convert" /\ result[1].call = call

\* the point after the four steps, each computed from the options alone
PointAfterCTM(o, pt, t) ==
  IF o.applyTransform /\ t # <<>>
  THEN [x |-> t[1].a * pt.x + t[1].c * pt.y + t[1].e,
        y |-> t[1].b * pt.x + t[1].d * pt.y + t[1].f]
  ELSE pt

PointAfterCrop(o, pt) ==
  IF o.cropBox # <<>>
  THEN [x |-> pt.x - o.cropBox[1].x, y |-> pt.y - o.cropBox[1].y]
  ELSE pt

PointAfterFlip(o, pt) ==
  IF o.flipY
  THEN [x |-> pt.x,
        y |-> (IF o.cropBox # <<>> THEN o.cropBox[1].height ELSE o.pdfHeight) - pt.y]
  ELSE pt

PointAfterScale(conv, pt) == [x |-> pt.x * conv.scaleX, y |-> pt.y * conv.scaleY]

ExpectedPoint(conv, pt, t) ==
  PointAfterScale(conv,
    PointAfterFlip(conv.options,
      PointAfterCrop(conv.options, PointAfterCTM(conv.options, pt, t))))

C27_DefaultScaleIsOne ==
  ( /\ pc # "new"
    /\ scenario.kind = "convert"
    /\ scenario.options.svgWidth = <<>>
    /\ scenario.options.svgHeight = <<>>
    /\ scenario.options.cropBox = <<>> )
  => converter[1].scaleX = 1 /\ converter[1].scaleY = 1
\* the words of a string, split at its spaces
RECURSIVE NextSpace(_, _)
NextSpace(str, k) ==
  IF k > Len(str) \/ str[k] = " " THEN k ELSE NextSpace(str, k + 1)

RECURSIVE SplitAtSpaces(_, _)
SplitAtSpaces(str, k) ==
  IF k > Len(str) THEN <<>>
  ELSE IF str[k] = " " THEN SplitAtSpaces(str, k + 1)
  ELSE <<SubSeq(str, k, NextSpace(str, k) - 1)>> \o SplitAtSpaces(str, NextSpace(str, k))

CommandLetters == {W("M"), W("L"), W("C"), W("Q"), W("Z")}

\* the command letters of path data, in order
CommandsOf(d) == SelectSeq(SplitAtSpaces(d, 1), LAMBDA w : w \in CommandLetters)

\* the coordinates of path data, in order
CoordinatesOf(d) == SelectSeq(SplitAtSpaces(d, 1), LAMBDA w : w \notin CommandLetters)

\* one L per line and one C per cubic, in segment order
RECURSIVE SegmentLetters(_, _)
SegmentLetters(segments, k) ==
  IF k > Len(segments) THEN <<>>
  ELSE <<IF segments[k].type = "line" THEN W("L") ELSE W("C")>>
         \o SegmentLetters(segments, k + 1)

\* for each subpath in order: M, the letters of its segments, Z if closed
RECURSIVE ExpectedLetters(_, _)
ExpectedLetters(subpaths, k) ==
  IF k > Len(subpaths) THEN <<>>
  ELSE <<W("M")>> \o SegmentLetters(subpaths[k].segments, 1)
         \o (IF subpaths[k].closed THEN <<W("Z")>> ELSE <<>>)
         \o ExpectedLetters(subpaths, k + 1)

\* the points of a segment in the order of its command
PointsOfSegment(segment) == segment.cp1 \o segment.cp2 \o <<segment.point>>

RECURSIVE PointsOfSegments(_, _)
PointsOfSegments(segments, k) ==
  IF k > Len(segments) THEN <<>>
  ELSE PointsOfSegment(segments[k]) \o PointsOfSegments(segments, k + 1)

\* the points of a path in the order of its commands
RECURSIVE PointsOfPath(_, _)
PointsOfPath(subpaths, k) ==
  IF k > Len(subpaths) THEN <<>>
  ELSE <<subpaths[k].startPoint>> \o PointsOfSegments(subpaths[k].segments, 1)
         \o PointsOfPath(subpaths, k + 1)

\* x and y of each point, passed through transformPoint with the transform
\* and formatted
RECURSIVE FormattedThrough(_, _, _, _)
FormattedThrough(conv, points, transform, k) ==
  IF k > Len(points) THEN <<>>
  ELSE <<FormatCoord(conv, TransformPoint(conv, points[k], transform).x),
         FormatCoord(conv, TransformPoint(conv, points[k], transform).y)>>
         \o FormattedThrough(conv, points, transform, k + 1)

\* C28: the commands emitted for a path are, for each subpath in order, one
\* M for its start point, one L per line and one C per cubic in segment
\* order, and Z exactly when the subpath is closed; every start point, end
\* point and control point is passed through transformPoint with the
\* transform of the path itself.
C28_OneCommandPerSegment ==
  Returned("convertPaths") =>
    /\ Len(result[1].value) = Len(paths)
    /\ \A k \in 1..Len(paths) :
         /\ CommandsOf(result[1].value[k].d) = ExpectedLetters(paths[k].subpaths, 1)
         /\ CoordinatesOf(result[1].value[k].d) =
              FormattedThrough(converter[1], PointsOfPath(paths[k].subpaths, 1),
                               <<paths[k].transform>>, 1)

\* the path with a cubic, an open subpath of two segments and another of
\* one, under a CTM that doubles x and shifts, Y flipped in the page height
C28_Witness ==
  /\ Returned("convertPaths")
  /\ Len(paths) = 1
  /\ paths[1].transform.a = 2
  /\ converter[1].options.flipY /\ converter[1].options.cropBox = <<>>
  /\ converter[1].scaleX = 1 /\ converter[1].scaleY = 1
  /\ converter[1].options.precision = 0
  /\ result[1].value[1].d =
       W("M 25 765 C 7 783 11 781 15 779 L 65 745 M 105 725 L 145 705")
\* C29: the style emitted has fill none exactly when the operation of the
\* path is neither fill nor fill-stroke; it has stroke attributes only when
\* the operation is stroke or fill-stroke, and its stroke width is then the
\* recorded stroke width times min(scaleX, scaleY).
C29_StyleFollowsOperation ==
  Returned("convertPaths") =>
    \A k \in 1..Len(paths) :
      /\ result[1].value[k].style.fill = <<W("none")>>
           <=> paths[k].operation \notin {"fill", "fill-stroke"}
      /\ paths[k].operation \notin {"stroke", "fill-stroke"} =>
           /\ result[1].value[k].style.stroke = <<>>
           /\ result[1].value[k].style.strokeWidth = <<>>
           /\ result[1].value[k].style.strokeLinecap = <<>>
           /\ result[1].value[k].style.strokeLinejoin = <<>>
           /\ result[1].value[k].style.strokeDasharray = <<>>
      /\ paths[k].operation \in {"stroke", "fill-stroke"} =>
           /\ result[1].value[k].style.stroke # <<>>
           /\ result[1].value[k].style.strokeWidth =
                <<paths[k].style.strokeWidth[1]
                    * (IF converter[1].scaleX < converter[1].scaleY
                       THEN converter[1].scaleX ELSE converter[1].scaleY)>>

\* the stroked line of width 2 under scaleX 4 and scaleY 2: width 4, no fill
C29_Witness ==
  /\ Returned("convertPaths")
  /\ Len(paths) = 1
  /\ paths[1].operation = "stroke"
  /\ paths[1].style.strokeWidth = <<2>>
  /\ converter[1].scaleX = 4 /\ converter[1].scaleY = 2
  /\ result[1].value[1].style.strokeWidth = <<4>>
  /\ result[1].value[1].style.fill = <<W("none")>>

\* the points emitted for the paths: every start point, end point and
\* control point after transformPoint with the transform of its path
EmittedPoints ==
  UNION { { TransformPoint(converter[1], PointsOfPath(paths[k].subpaths, 1)[n],
                           <<paths[k].transform>>) :
              n \in 1..Len(PointsOfPath(paths[k].subpaths, 1)) } :
          k \in 1..Len(paths) }

Least(xs) == CHOOSE x \in xs : \A y \in xs : x <= y

Greatest(xs) == CHOOSE x \in xs : \A y \in xs : x >= y

\* C30: the bounding box derived for a list of paths is the least and the
\* greatest x and y over all the points emitted, after the CTM, the crop
\* offset, the Y flip and the scale: it bounds exactly the coordinates of
\* the path data.
C30_BoundsAreOfEmittedPoints ==
  Returned("calculateBounds") =>
    result[1].value =
      [x |-> Least({pt.x : pt \in EmittedPoints}),
       y |-> Least({pt.y : pt \in EmittedPoints}),
       width |-> Greatest({pt.x : pt \in EmittedPoints})
                   - Least({pt.x : pt \in EmittedPoints}),
       height |-> Greatest({pt.y : pt \in EmittedPoints})
                    - Least({pt.y : pt \in EmittedPoints})]
C32_SameBufferSameResult ==
  (pc = "done" /\ scenario.kind = "reparse") =>
    \A n \in 1..Len(result) :
      result[n] =
        [paths |-> ProcessTokens(NewParser, scenario.streams[n]).paths,
         textObjects |-> ProcessTokens(NewParser, scenario.streams[n]).textObjects]
RECURSIVE SingleScan(_)
SingleScan(s) ==
  IF Len(s) = 0 THEN <<>>
  ELSE IF Len(s) >= 2 /\ s[1] = "\\"
            /\ s[2] \in {"n", "r", "t", "b", "f", "(", ")", "\\"}
       THEN << CASE s[2] = "n" -> "\n" [] s[2] = "r" -> "\r" [] s[2] = "t" -> "\t"
                 [] s[2] = "b" -> Backspace [] s[2] = "f" -> "\f"
                 [] OTHER -> s[2] >>
              \o SingleScan(SubSeq(s, 3, Len(s)))
       ELSE <<s[1]>> \o SingleScan(Tail(s))

\* C38: decoding a literal string is one scan from left to right that
\* replaces each escape sequence among \n \r \t \b \f \( \) \\ by its
\* character, a character of the input being part of at most one escape:
\* an escaped backslash followed by n gives a backslash and n.
C38_EscapesDecodedInOneScan ==
  ( /\ pc = "done"
    /\ scenario.kind = "literal"
    /\ \A k \in 1..Len(scenario.pieces) : scenario.pieces[k] # <<"(", "b", ")">> )
  => /\ Len(textObjects) = 1
     /\ textObjects[1].text = SingleScan(Flatten(scenario.pieces))
\* the index of the last token of toks[1..k] that is in ops, 0 if none
RECURSIVE LastOf(_, _, _)
LastOf(toks, k, ops) ==
  IF k = 0 THEN 0
  ELSE IF toks[k] \in ops THEN k
  ELSE LastOf(toks, k - 1, ops)

\* the sum of the operands of the Td and TD among toks[from+1..to]
RECURSIVE SumOfMoves(_, _, _)
SumOfMoves(toks, from, to) ==
  IF to <= from THEN <<0, 0>>
  ELSE LET rest == SumOfMoves(toks, from, to - 1)
       IN  IF toks[to] \in {T_Td, T_TD}
           THEN <<rest[1] + ParseFloat(toks[to - 2]), rest[2] + ParseFloat(toks[to - 1])>>
           ELSE rest

\* where the claim puts the text position after toks[1..n]
PositionAfter(toks, n) ==
  LET bt == LastOf(toks, n, {T_BT})
      tm == LastOf(toks, n, {T_Tm})
      base == IF tm > bt
              THEN <<ParseFloat(toks[tm - 2]), ParseFloat(toks[tm - 1])>>
              ELSE <<0, 0>>
      moves == SumOfMoves(toks, IF tm > bt THEN tm ELSE bt, n)
  IN  <<base[1] + moves[1], base[2] + moves[2]>>

\* C34: in a text object positioned by Tm, Td and TD only, a text run is
\* recorded at the (e, f) of the last Tm since BT, or (0, 0), plus the sum
\* of the operands of the Td and TD after it; BT sets both text matrices to
\* the identity, Tm sets both to its operands, and after BT, Tm, Td and TD
\* the text matrix equals the text-line matrix.
C34_TextPositionIsTmPlusMoves ==
  [][ (pc = "dispatch" /\ i <= Len(tokens) /\ scenario.kind = "position") =>
        /\ tokens[i] = T_BT =>
             textMatrix' = <<1, 0, 0, 1, 0, 0>> /\ textLineMatrix' = <<1, 0, 0, 1, 0, 0>>
        /\ tokens[i] = T_Tm =>
             /\ textMatrix' = [k \in 1..6 |-> ParseFloat(tokens[i - 7 + k])]
             /\ textLineMatrix' = textMatrix'
        /\ tokens[i] \in {T_Td, T_TD} => textMatrix' = textLineMatrix'
        /\ Len(textObjects') > Len(textObjects) =>
             LET run == textObjects'[Len(textObjects')]
             IN  <<run.x, run.y>> = PositionAfter(tokens, i - 1) ]_vars

\* a run has been recorded at (31, 42): after the Tm to (30, 40) and the
\* Td by (1, 2)
C34_Witness ==
  /\ scenario.kind = "position"
  /\ pc = "done"
  /\ Len(textObjects) >= 1
  /\ \E k \in 1..Len(textObjects) : textObjects[k].x = 31 /\ textObjects[k].y = 42
\* C37: a path painted with B, B*, b or b* carries in strokeDasharray the
\* dash pattern the graphics state had at its painting operator, as a path
\* painted with S or s does.
C37_FillAndStrokeRecordsDash ==
  /\ Len(pathLog) = Len(paths)
  /\ \A k \in 1..Len(paths) :
       pathLog[k].op \in StrokingOperators =>
         paths[k].style.strokeDasharray = <<pathLog[k].atPaint.dashArray>>
\* C35: a path is opened by m or re only; with no path open, l, c, v, y
\* and h change nothing of the parser, and S, s, f, F, f*, B, B*, b and b*
\* append nothing to the list of paths.
C35_NoPathNothingHappens ==
  [][ (pc = "dispatch" /\ i <= Len(tokens) /\ scenario.kind = "subpaths"
         /\ currentPath = <<>>) =>
        /\ tokens[i] \in {T_l, T_c, T_v, T_y, T_h} => UNCHANGED parserVars
        /\ tokens[i] \in PathPaintingOperators \ {T_n} =>
             paths' = paths /\ currentPath' = <<>>
        /\ currentPath' # <<>> => tokens[i] \in {T_m, T_re} ]_vars

\* a line after a stroke: no path open when l ran, and one path recorded
C35_Witness ==
  /\ scenario.kind = "subpaths"
  /\ pc = "done"
  /\ tokens = <<W("1"), W("2"), T_m, T_S, W("5"), W("6"), T_l>>
  /\ Len(paths) = 1
  /\ currentPath = <<>>

\* the operands on the stack when toks[k] is dispatched are the tokens since
\* the operator before it
RECURSIVE OperandsBefore(_, _)
OperandsBefore(toks, k) ==
  IF k = 1 \/ IsOperatorToken(toks[k - 1]) THEN 0
  ELSE 1 + OperandsBefore(toks, k - 1)

\* the m and re with enough operands among toks[1..n] since the last
\* painting operator or n
RECURSIVE OpenersSincePaint(_, _)
OpenersSincePaint(toks, n) ==
  IF n = 0 THEN 0
  ELSE IF toks[n] \in PathPaintingOperators THEN 0
  ELSE IF \/ toks[n] = T_m /\ OperandsBefore(toks, n) >= 2
          \/ toks[n] = T_re /\ OperandsBefore(toks, n) >= 4
       THEN OpenersSincePaint(toks, n - 1) + 1
  ELSE OpenersSincePaint(toks, n - 1)

HasStartPoint(subpath) ==
  subpath.startPoint.x # NaN /\ subpath.startPoint.y # NaN

\* C36: an open path and a recorded path have at least one subpath, each
\* with a start point, and as many subpaths as m and re (with enough
\* operands) ran since the path was opened; l, c, v and y add one segment
\* to the last subpath, closed or not, and start no subpath.
C36_SubpathsAreCountedByOpeners ==
  [][ (pc = "dispatch" /\ i <= Len(tokens) /\ scenario.kind = "subpaths") =>
        /\ currentPath' # <<>> =>
             /\ Len(currentPath'[1].subpaths) = OpenersSincePaint(tokens, i)
             /\ Len(currentPath'[1].subpaths) >= 1
             /\ \A k \in 1..Len(currentPath'[1].subpaths) :
                  HasStartPoint(currentPath'[1].subpaths[k])
        /\ Len(paths') > Len(paths) =>
             LET path == paths'[Len(paths')]
             IN  /\ Len(path.subpaths) = OpenersSincePaint(tokens, i - 1)
                 /\ Len(path.subpaths) >= 1
                 /\ \A k \in 1..Len(path.subpaths) : HasStartPoint(path.subpaths[k])
        /\ (tokens[i] \in {T_l, T_c, T_v, T_y} /\ currentPath # <<>>) =>
             LET before == currentPath[1].subpaths
                 after == currentPath'[1].subpaths
                 n == Len(before)
             IN  /\ Len(after) = n
                 /\ \A k \in 1..(n - 1) : after[k] = before[k]
                 /\ Len(after[n].segments) = Len(before[n].segments) + 1
                 /\ after[n].closed = before[n].closed
                 /\ after[n].startPoint = before[n].startPoint ]_vars

\* the open path has two subpaths, of an m and of a re, and the rectangle,
\* closed, has taken a fourth segment from an l
C36_Witness ==
  /\ scenario.kind = "subpaths"
  /\ currentPath # <<>>
  /\ Len(currentPath[1].subpaths) = 2
  /\ currentPath[1].subpaths[2].closed
  /\ Len(currentPath[1].subpaths[2].segments) = 4
\* C39: Tj and TJ leave the text matrix and the text-line matrix as they
\* were: every run they record is at the (e, f) of the text matrix, and a
\* Tj right after a Tj records its run where the first one did.
C39_ShowingTextDoesNotMove ==
  [][ (pc = "dispatch" /\ i <= Len(tokens) /\ scenario.kind = "show"
         /\ tokens[i] \in {T_Tj, T_TJ}) =>
        /\ textMatrix' = textMatrix
        /\ textLineMatrix' = textLineMatrix
        /\ \A k \in (Len(textObjects) + 1)..Len(textObjects') :
             textObjects'[k].x = textMatrix[5] /\ textObjects'[k].y = textMatrix[6]
        /\ ( /\ tokens[i] = T_Tj
             /\ i > 2
             /\ tokens[i - 2] = T_Tj
             /\ Len(textObjects') > Len(textObjects) ) =>
             /\ Len(textObjects) >= 1
             /\ textObjects'[Len(textObjects')].x = textObjects[Len(textObjects)].x
             /\ textObjects'[Len(textObjects')].y = textObjects[Len(textObjects)].y ]_vars

\* two Tj in a row after a Tm have recorded two runs, both at (30, 40)
C39_Witness ==
  /\ scenario.kind = "show"
  /\ pc = "done"
  /\ Len(tokens) = 12
  /\ tokens[10] = T_Tj
  /\ tokens[12] = T_Tj
  /\ Len(textObjects) = 2
  /\ textObjects[1].x = 30 /\ textObjects[1].y = 40
  /\ textObjects[2].x = 30 /\ textObjects[2].y = 40
\* the paths a new parser gives for each stream of a page, in order, each
\* with the index of the page
RECURSIVE PathsOfStreams(_, _)
PathsOfStreams(streams, page) ==
  IF Len(streams) = 0 THEN <<>>
  ELSE (IF streams[1] = <<>> THEN <<>>
        ELSE TagWithPage(ProcessTokens(NewParser, Tokenize(streams[1][1].contents)).paths,
                         page))
       \o PathsOfStreams(Tail(streams), page)

RECURSIVE PathsOfPages(_, _)
PathsOfPages(pages, k) ==
  IF k > Len(pages) THEN <<>>
  ELSE (IF pages[k].contents = <<>> THEN <<>>
        ELSE PathsOfStreams(pages[k].contents[1], k - 1))
       \o PathsOfPages(pages, k + 1)

\* C40: extractContentPaths returns the paths parseContentStream gave for
\* every stream of every page, in order, each with the zero-based index of
\* its page, and statistics.total is their number.
C40_EveryPathOfEveryStreamIsReturned ==
  (pc = "done" /\ scenario.kind = "extract") =>
    /\ result[1].paths = PathsOfPages(scenario.pages, 1)
    /\ result[1].statistics.total = Len(PathsOfPages(scenario.pages, 1))
====
